---- MODULE Spec2Model ----
(***************************************************************************)
(* fslock: advisory file locking with an intra-process arbitration table.  *)
(*                                                                         *)
(* The model follows src/src/lib.rs (LockFile), src/src/unix_fileid.rs     *)
(* (HELD_LOCKS, take_lock, try_take_lock, release_lock) and src/src/unix.rs*)
(* (flock-based lock, try_lock, unlock, close).                            *)
(*                                                                         *)
(* One process is modelled in full: every LockFile handle of it is driven  *)
(* by its own thread (the methods take &mut self, so a handle is used by   *)
(* one thread at a time).  A second process is modelled by what it does to *)
(* the kernel's lock on the file (the try_lock example program).           *)
(*                                                                         *)
(* The kernel lock is the one flock(2) gives: it belongs to the open file  *)
(* description, each open() makes a new one, and closing it (or the exit   *)
(* of the process) releases the lock.                                      *)
(*                                                                         *)
(* lib.rs declares neither raw() nor the into_file module, so a handle's   *)
(* descriptor is closed by Drop alone.                                     *)
(*                                                                         *)
(* lib.rs as given has no lock_with_pid, no try_lock_with_pid and no        *)
(* truncate in unlock, while test.rs and the examples call them.  Their     *)
(* control flow is taken from the specification (SpecPid); the Writer of    *)
(* fmt.rs and the native write, fsync and truncate of unix.rs that they     *)
(* call are modelled from the source.                                       *)
(***************************************************************************)
EXTENDS Integers, FiniteSets, Sequences, TLC

\* Number of LockFile handles (each with its own thread) the process opens.
NumHandles == 2

\* Number of handles the process opens where several threads have to queue
\* for one file.
NumContenders == 3

\* Number of handles the process opens to take the lock with the PID
\* written into the file.
NumStampers == 1

\* The lock file(s) on disk; a file's name stands for its (st_dev, st_ino).
Files == {"a"}

\* Exclusivity (lib.rs): PerFileDesc gives FileId::Exclusive(raw id),
\* OsDependent gives FileId::NonExclusive.
Modes == {"PerFileDesc", "OsDependent"}

\* The owner of the kernel lock when the other process holds it.
Peer == -1

\* The open file description behind a std::fs::File this process reads a
\* lock file through; it is never handed to flock.
PlainDesc == -2

\* A vacant slot of HELD_LOCKS.
Vacant == [cv |-> 0, by |-> 0]

\* constants.rs: RefCell::new(true), the truncation default at the start
\* of a thread.
DEFAULT_LOCKFILE_TRUNCATE == TRUE

\* lockfile_truncate has not been called yet.
NotSet == "not set"

\* The file has not been read yet.
NotRead == <<"not read">>

\* What a native flock call can be made to report by the kernel, beyond the
\* outcome the lock state itself decides ("none").
Faults == {"none", "EINTR", "EIO"}

VARIABLES
    pc,       \* pc[h]: where handle h's thread is
    locked,   \* locked[h]: LockFile::locked
    mode,     \* mode[h]: the Exclusivity given to open_internal
    file,     \* file[h]: the file h was opened on
    ret,      \* ret[h]: the value of the call that last returned on h
    wcv,      \* wcv[h]: the condvar h waits on / carries in take_lock (cvar)
    held,     \* held[f]: the HELD_LOCKS entry of f: condvar, and who inserted it
    os,       \* os[f]: who holds the kernel's flock on f (0: nobody)
    peerRet,  \* peerRet[f]: what the other process's last try_lock on f returned
    frame,    \* frame[h]: where h's thread is in a call that stamps the PID
    trunc,    \* trunc[h]: unlock on h has its truncate still to do
    wbuf,     \* wbuf[h]: Adapter::buffer[.. cursor] of the Writer at work on h
    wres,     \* wres[h]: Adapter::result
    wout,     \* wout[h]: the bytes sys::write has still to hand to the kernel
    offset,   \* offset[h]: the file offset of h's descriptor
    stamp,    \* stamp[h]: what became of the stamp h last set out to write
    content,  \* content[f]: the bytes of file f
    seen,     \* seen[h]: the file as read after h's first stamping call
    mtx,      \* mtx: the thread holding the mutex of HELD_LOCKS (0: nobody)
    want,     \* want[h]: the function of unix_fileid.rs h's thread is inside
    plain,    \* plain[f]: the std::fs::File this process reads f through
    closes,   \* closes[h]: how often h's descriptor has been closed
    stdfile,  \* stdfile[h]: the std::fs::File made from h's descriptor
    arguments,\* arguments[h]: the pieces write_fmt has still to hand to write_str
    wstr,     \* wstr[h]: `bytes` of write_str, what it has still to copy
    text,     \* text[h]: the formatted text of the write_fmt call on h
    sent,     \* sent[h]: the bytes handed to sys::write so far, in call order
    dlft,     \* dlft[h]: DEFAULT_LOCKFILE_TRUNCATE as the thread of h has it
    lastset,  \* lastset: the value last given to lockfile_truncate, as shown
    opens     \* opens[h]: how often sys::open gave a descriptor for h

\* The state of PID stamping.
pidvars == <<frame, trunc, wbuf, wres, wout, offset, stamp, content>>

\* The state of a Writer at work on a text of any length.
fmtvars == <<arguments, wstr, text, sent>>

\* The state of constants.rs.
dlftvars == <<dlft, lastset>>

auxvars == <<fmtvars, dlftvars, opens>>

\* What the steps of lock, try_lock, unlock and drop leave alone when each
\* access to the table is taken as one step.
restvars == <<pidvars, seen, auxvars, mtx, want, plain, closes, stdfile>>

vars == <<pc, locked, mode, file, ret, wcv, held, os, peerRet, restvars>>

\* The handles the process has opened.
Handles == DOMAIN pc

\* Condition variables are told apart by a number; 0 is "none".
CVars == 1..(Cardinality(Handles) + Cardinality(DOMAIN held))

\* get_id that gives FileId::Exclusive whatever the Exclusivity.
Exclusive_Always(h) == TRUE

\* FileId::Exclusive(_) or FileId::NonExclusive
Exclusive(h) == mode[h] = "PerFileDesc"

ModeRank(m) == IF m = "PerFileDesc" THEN 0 ELSE 1

\* LockFile::open_internal: state of a freshly opened handle.  Handles are
\* interchangeable, so they are opened in the order of their modes.
Opened(n, modes) ==
    /\ pc = [h \in 1..n |-> "idle"]
    /\ locked = [h \in 1..n |-> FALSE]
    /\ mode \in [1..n -> modes]
    /\ \A h \in 1..n : \A g \in 1..n :
           h < g => ModeRank(mode[h]) <= ModeRank(mode[g])
    /\ file \in [1..n -> Files]
    /\ ret = [h \in 1..n |-> "none"]
    /\ wcv = [h \in 1..n |-> 0]
    /\ held = [f \in Files |-> Vacant]
    /\ os = [f \in Files |-> 0]
    /\ peerRet = [f \in Files |-> "none"]

\* The descriptors are at offset 0 of a file just created, and no Writer is
\* at work.
Unstamped(n) ==
    /\ frame = [h \in 1..n |-> "none"]
    /\ trunc = [h \in 1..n |-> FALSE]
    /\ wbuf = [h \in 1..n |-> <<>>]
    /\ wres = [h \in 1..n |-> "ok"]
    /\ wout = [h \in 1..n |-> <<>>]
    /\ offset = [h \in 1..n |-> 0]
    /\ stamp = [h \in 1..n |-> "none"]
    /\ content = [f \in Files |-> <<>>]
    /\ seen = [h \in 1..n |-> NotRead]

\* Nobody is inside unix_fileid.rs, and the descriptors of the handles are
\* the only ones the process has on the files.
Quiet(n) ==
    /\ mtx = 0
    /\ want = [h \in 1..n |-> "none"]
    /\ plain = [f \in Files |-> "unopened"]
    /\ closes = [h \in 1..n |-> 0]
    /\ stdfile = [h \in 1..n |-> "none"]
    /\ arguments = [h \in 1..n |-> <<>>]
    /\ wstr = [h \in 1..n |-> <<>>]
    /\ text = [h \in 1..n |-> <<>>]
    /\ sent = [h \in 1..n |-> <<>>]
    /\ dlft = [h \in 1..n |-> DEFAULT_LOCKFILE_TRUNCATE]
    /\ lastset = NotSet
    /\ opens = [h \in 1..n |-> 1]

Init == Opened(NumHandles, Modes) /\ Unstamped(NumHandles) /\ Quiet(NumHandles)

----------------------------------------------------------------------------
\* Arbitration table (unix_fileid.rs)

\* Condvars still referenced: stored in the table or carried by a thread.
LiveCVars == {held[f].cv : f \in DOMAIN held} \cup {wcv[h] : h \in Handles}

\* Arc::new(Condvar::new()): a condvar nobody else refers to.
FreshCVar == CHOOSE c \in CVars : c \notin LiveCVars /\ \A d \in CVars : d \notin LiveCVars => c <= d

\* Threads blocked in cv.wait on condvar c.
Waiters(c) == {w \in Handles : pc[w] = "waiting" /\ wcv[w] = c}

\* HELD_LOCKS.entry(id) is Entry::Vacant
IsVacant(f) == held[f] = Vacant

\* try_take_lock that inserts without looking at the entry.
TryTakeLock_NoCheck(h) == TRUE

\* try_take_lock(id): true iff the entry was vacant (and is then inserted).
TryTakeLock(h) == IsVacant(file[h])

\* A table with one entry for all the files.
Inserted_OneKey(h, c) == [f \in DOMAIN held |-> [cv |-> c, by |-> h]]

\* The table after handle h inserted condvar c for its file.
Inserted(h, c) == [held EXCEPT ![file[h]] = [cv |-> c, by |-> h]]

\* release_lock over a notify_one that always wakes the waiter with the
\* lowest number.
ReleaseLock_WakeLowest(h, newpc) ==
    IF Exclusive(h) /\ ~IsVacant(file[h])
    THEN /\ held' = [held EXCEPT ![file[h]] = Vacant]
         /\ IF Waiters(held[file[h]].cv) = {}
            THEN pc' = [pc EXCEPT ![h] = newpc]
            ELSE \E w \in Waiters(held[file[h]].cv) :
                     /\ \A v \in Waiters(held[file[h]].cv) : w <= v
                     /\ pc' = [pc EXCEPT ![h] = newpc, ![w] = "woken"]
    ELSE /\ held' = held
         /\ pc' = [pc EXCEPT ![h] = newpc]

\* release_lock(id) by h, which then goes on at newpc: the entry is removed
\* if present and one thread waiting on its condvar, if any, is woken.
ReleaseLock(h, newpc) ==
    IF Exclusive(h) /\ ~IsVacant(file[h])
    THEN /\ held' = [held EXCEPT ![file[h]] = Vacant]
         /\ IF Waiters(held[file[h]].cv) = {}
            THEN pc' = [pc EXCEPT ![h] = newpc]
            ELSE \E w \in Waiters(held[file[h]].cv) :
                     pc' = [pc EXCEPT ![h] = newpc, ![w] = "woken"]
    ELSE /\ held' = held
         /\ pc' = [pc EXCEPT ![h] = newpc]

\* take_lock that returns without waiting when the entry is occupied.
TakeLock_NoWait(h, c) ==
    /\ held' = IF IsVacant(file[h])
               THEN Inserted(h, IF c = 0 THEN FreshCVar ELSE c)
               ELSE held
    /\ wcv' = [wcv EXCEPT ![h] = 0]
    /\ pc' = [pc EXCEPT ![h] = "lock_native"]

\* take_lock(id), one pass of its loop under the mutex, carrying condvar c
\* (0: None): insert if vacant, else wait on the condvar stored there.
TakeLock(h, c) ==
    IF IsVacant(file[h])
    THEN /\ held' = Inserted(h, IF c = 0 THEN FreshCVar ELSE c)
         /\ wcv' = [wcv EXCEPT ![h] = 0]
         /\ pc' = [pc EXCEPT ![h] = "lock_native"]
    ELSE /\ held' = held
         /\ wcv' = [wcv EXCEPT ![h] = held[file[h]].cv]
         /\ pc' = [pc EXCEPT ![h] = "waiting"]

----------------------------------------------------------------------------
\* Kernel lock (unix.rs)

\* flock(fd, LOCK_EX) can be granted to h's open file description.
Grantable(h) == os[file[h]] \in {0, h}

\* The kernel lock table after h's descriptor gave up the lock (LOCK_UN,
\* close): nothing changes unless h's description holds it.
OsReleased(h) == IF os[file[h]] = h THEN [os EXCEPT ![file[h]] = 0] ELSE os

\* errno after flock(fd, LOCK_EX | LOCK_NB): "0" when it returned 0.
FlockErrno(h, fault) ==
    IF fault = "none"
    THEN IF Grantable(h) THEN "0" ELSE "EWOULDBLOCK"
    ELSE fault

\* sys::try_lock that takes every failure of flock for success.
SysTryLock_IgnoreErrno(h, fault) == "true"

\* sys::try_lock: Ok(true), Ok(false) or Err, from flock's result and errno.
SysTryLock(h, fault) ==
    IF fault = "none"
    THEN IF Grantable(h) THEN "true" ELSE "false"    \* 0 / EWOULDBLOCK
    ELSE IF fault = "EINTR" THEN "false" ELSE "err"

----------------------------------------------------------------------------
\* LockFile::lock

\* lock without the check of the flag.
Lock_NoOwnerCheck(h) ==
    /\ pc[h] = "idle"
    /\ ret' = [ret EXCEPT ![h] = "none"]
    /\ IF Exclusive(h)
       THEN TakeLock(h, 0)
       ELSE /\ pc' = [pc EXCEPT ![h] = "lock_native"]
            /\ UNCHANGED <<held, wcv>>
    /\ UNCHANGED <<locked, mode, file, os, peerRet>>

\* lock up to the first pass of take_lock: the check of the flag touches
\* nothing shared, so it is one step with the table access that follows.
Lock(h) ==
    /\ pc[h] = "idle" /\ ~locked[h]
    /\ ret' = [ret EXCEPT ![h] = "none"]
    /\ IF Exclusive(h)
       THEN TakeLock(h, 0)
       ELSE /\ pc' = [pc EXCEPT ![h] = "lock_native"]
            /\ UNCHANGED <<held, wcv>>
    /\ UNCHANGED <<locked, mode, file, os, peerRet>>

\* lock() on a handle that owns the lock panics.
LockPanic(h) ==
    /\ pc[h] = "idle" /\ locked[h]
    /\ pc' = [pc EXCEPT ![h] = "panicked"]
    /\ ret' = [ret EXCEPT ![h] = "panic"]
    /\ UNCHANGED <<locked, mode, file, wcv, held, os, peerRet>>

\* Condvar::wait may return without a notification.
SpuriousWake(h) ==
    /\ pc[h] = "waiting"
    /\ pc' = [pc EXCEPT ![h] = "woken"]
    /\ UNCHANGED <<locked, mode, file, ret, wcv, held, os, peerRet>>

\* take_lock after cv.wait returned: the loop checks the entry again.
Retake(h) ==
    /\ pc[h] = "woken"
    /\ TakeLock(h, wcv[h])
    /\ UNCHANGED <<locked, mode, file, ret, os, peerRet>>

\* sys::lock returned Ok: the handle owns the lock.
NativeLockOk(h) ==
    /\ pc[h] = "lock_native"
    /\ Grantable(h)
    /\ os' = [os EXCEPT ![file[h]] = h]
    /\ locked' = [locked EXCEPT ![h] = TRUE]
    /\ ret' = [ret EXCEPT ![h] = "ok"]
    /\ pc' = [pc EXCEPT ![h] = "idle"]
    /\ UNCHANGED <<mode, file, wcv, held, peerRet>>

\* sys::lock returned Err: the entry has to be released.
NativeLockErr(h) ==
    /\ pc[h] = "lock_native"
    /\ pc' = [pc EXCEPT ![h] = "lock_release"]
    /\ ret' = [ret EXCEPT ![h] = "err"]
    /\ UNCHANGED <<locked, mode, file, wcv, held, os, peerRet>>

\* lock returning the error with the entry still in the table.
LockRelease_KeepEntry(h) ==
    /\ pc[h] = "lock_release"
    /\ pc' = [pc EXCEPT ![h] = "idle"]
    /\ UNCHANGED <<locked, mode, file, ret, wcv, held, os, peerRet>>

\* release_lock after the failed sys::lock, then return Err(error).
LockRelease(h) ==
    /\ pc[h] = "lock_release"
    /\ ReleaseLock(h, "idle")
    /\ UNCHANGED <<locked, mode, file, ret, wcv, os, peerRet>>

----------------------------------------------------------------------------
\* LockFile::try_lock

\* try_lock that goes to the native call without asking the table.
TryLock_NoArbitration(h) ==
    /\ pc[h] = "idle" /\ ~locked[h]
    /\ pc' = [pc EXCEPT ![h] = "try_native"]
    /\ ret' = [ret EXCEPT ![h] = "none"]
    /\ UNCHANGED <<locked, mode, file, wcv, held, os, peerRet>>

\* try_lock that calls release_lock also when try_take_lock refused.
TryLock_ReleaseOnRefusal(h) ==
    /\ pc[h] = "idle" /\ ~locked[h]
    /\ IF Exclusive(h)
       THEN IF TryTakeLock(h)
            THEN /\ held' = Inserted(h, FreshCVar)
                 /\ pc' = [pc EXCEPT ![h] = "try_native"]
                 /\ ret' = [ret EXCEPT ![h] = "none"]
            ELSE /\ ret' = [ret EXCEPT ![h] = "false"]
                 /\ pc' = [pc EXCEPT ![h] = "try_release"]
                 /\ held' = held
       ELSE /\ pc' = [pc EXCEPT ![h] = "try_native"]
            /\ ret' = [ret EXCEPT ![h] = "none"]
            /\ held' = held
    /\ UNCHANGED <<locked, mode, file, wcv, os, peerRet>>

\* try_lock up to the arbitration: without the entry it returns Ok(false) at
\* once, with it the native call comes next.
TryLock(h) ==
    /\ pc[h] = "idle" /\ ~locked[h]
    /\ IF Exclusive(h)
       THEN IF TryTakeLock(h)
            THEN /\ held' = Inserted(h, FreshCVar)
                 /\ pc' = [pc EXCEPT ![h] = "try_native"]
                 /\ ret' = [ret EXCEPT ![h] = "none"]
            ELSE /\ ret' = [ret EXCEPT ![h] = "false"]
                 /\ UNCHANGED <<held, pc>>
       ELSE /\ pc' = [pc EXCEPT ![h] = "try_native"]
            /\ ret' = [ret EXCEPT ![h] = "none"]
            /\ held' = held
    /\ UNCHANGED <<locked, mode, file, wcv, os, peerRet>>

\* try_lock() on a handle that owns the lock panics.
TryLockPanic(h) ==
    /\ pc[h] = "idle" /\ locked[h]
    /\ pc' = [pc EXCEPT ![h] = "panicked"]
    /\ ret' = [ret EXCEPT ![h] = "panic"]
    /\ UNCHANGED <<locked, mode, file, wcv, held, os, peerRet>>

\* try_lock whose match sets the flag for Ok(false) as for Ok(true).
TryNative_AnyOk(h, fault) ==
    /\ pc[h] = "try_native"
    /\ ret' = [ret EXCEPT ![h] = SysTryLock(h, fault)]
    /\ IF SysTryLock(h, fault) \in {"true", "false"}
       THEN /\ locked' = [locked EXCEPT ![h] = TRUE]
            /\ pc' = [pc EXCEPT ![h] = "idle"]
            /\ os' = IF SysTryLock(h, fault) = "true"
                     THEN [os EXCEPT ![file[h]] = h] ELSE os
       ELSE /\ pc' = [pc EXCEPT ![h] = "try_release"]
            /\ UNCHANGED <<os, locked>>
    /\ UNCHANGED <<mode, file, wcv, held, peerRet>>

\* try_lock over a flock without LOCK_NB, which returns only once the lock
\* can be granted.
TryNative_Blocking(h, fault) ==
    /\ pc[h] = "try_native"
    /\ Grantable(h)
    /\ ret' = [ret EXCEPT ![h] = SysTryLock(h, fault)]
    /\ IF SysTryLock(h, fault) = "true"
       THEN /\ os' = [os EXCEPT ![file[h]] = h]
            /\ locked' = [locked EXCEPT ![h] = TRUE]
            /\ pc' = [pc EXCEPT ![h] = "idle"]
       ELSE /\ pc' = [pc EXCEPT ![h] = "try_release"]
            /\ UNCHANGED <<os, locked>>
    /\ UNCHANGED <<mode, file, wcv, held, peerRet>>

\* sys::try_lock(desc) and the match on its result: Ok(true) makes the
\* handle the owner, anything else goes on to release the entry.
TryNative(h, fault) ==
    /\ pc[h] = "try_native"
    /\ ret' = [ret EXCEPT ![h] = SysTryLock(h, fault)]
    /\ IF SysTryLock(h, fault) = "true"
       THEN /\ os' = [os EXCEPT ![file[h]] = h]
            /\ locked' = [locked EXCEPT ![h] = TRUE]
            /\ pc' = [pc EXCEPT ![h] = "idle"]
       ELSE /\ pc' = [pc EXCEPT ![h] = "try_release"]
            /\ UNCHANGED <<os, locked>>
    /\ UNCHANGED <<mode, file, wcv, held, peerRet>>

\* try_lock returning Ok(false) or Err with the entry still in the table.
TryRelease_KeepEntry(h) ==
    /\ pc[h] = "try_release"
    /\ pc' = [pc EXCEPT ![h] = "idle"]
    /\ UNCHANGED <<locked, mode, file, ret, wcv, held, os, peerRet>>

\* release_lock after sys::try_lock gave Ok(false) or Err, then return it.
TryRelease(h) ==
    /\ pc[h] = "try_release"
    /\ ReleaseLock(h, "idle")
    /\ UNCHANGED <<locked, mode, file, ret, wcv, os, peerRet>>

----------------------------------------------------------------------------
\* LockFile::unlock

\* unlock without the check of the flag.
Unlock_NoOwnerCheck(h) ==
    /\ pc[h] = "idle"
    /\ locked' = [locked EXCEPT ![h] = FALSE]
    /\ os' = OsReleased(h)
    /\ pc' = [pc EXCEPT ![h] = "unlock_release"]
    /\ ret' = [ret EXCEPT ![h] = "none"]
    /\ UNCHANGED <<mode, file, wcv, held, peerRet>>

\* unlock that goes to release_lock without sys::unlock.
Unlock_NoNative(h) ==
    /\ pc[h] = "idle" /\ locked[h]
    /\ locked' = [locked EXCEPT ![h] = FALSE]
    /\ pc' = [pc EXCEPT ![h] = "unlock_release"]
    /\ ret' = [ret EXCEPT ![h] = "none"]
    /\ UNCHANGED <<mode, file, wcv, held, os, peerRet>>

\* unlock that leaves the flag set.
Unlock_KeepFlag(h) ==
    /\ pc[h] = "idle" /\ locked[h]
    /\ os' = OsReleased(h)
    /\ pc' = [pc EXCEPT ![h] = "unlock_release"]
    /\ ret' = [ret EXCEPT ![h] = "none"]
    /\ UNCHANGED <<locked, mode, file, wcv, held, peerRet>>

\* unlock up to sys::unlock returning Ok: the flag is cleared first, and
\* release_lock is the step that follows.
Unlock(h) ==
    /\ pc[h] = "idle" /\ locked[h]
    /\ locked' = [locked EXCEPT ![h] = FALSE]
    /\ os' = OsReleased(h)
    /\ pc' = [pc EXCEPT ![h] = "unlock_release"]
    /\ ret' = [ret EXCEPT ![h] = "none"]
    /\ UNCHANGED <<mode, file, wcv, held, peerRet>>

\* unlock when sys::unlock returns Err: `?` returns it at once.
UnlockErr(h) ==
    /\ pc[h] = "idle" /\ locked[h]
    /\ locked' = [locked EXCEPT ![h] = FALSE]
    /\ ret' = [ret EXCEPT ![h] = "err"]
    /\ UNCHANGED <<pc, mode, file, wcv, held, os, peerRet>>

UnlockRelease(h) ==
    /\ pc[h] = "unlock_release"
    /\ ReleaseLock(h, "idle")
    /\ ret' = [ret EXCEPT ![h] = "ok"]
    /\ UNCHANGED <<locked, mode, file, wcv, os, peerRet>>

\* unlock() on a handle that does not own the lock panics.
UnlockPanic(h) ==
    /\ pc[h] = "idle" /\ ~locked[h]
    /\ pc' = [pc EXCEPT ![h] = "panicked"]
    /\ ret' = [ret EXCEPT ![h] = "panic"]
    /\ UNCHANGED <<locked, mode, file, wcv, held, os, peerRet>>

----------------------------------------------------------------------------
\* Drop for LockFile

\* A handle can be dropped between calls, or by the unwinding of a panic.
Droppable(h) == pc[h] \in {"idle", "panicked"}

\* drop that unlocks and releases whether or not the handle is locked.
Drop_AlwaysRelease(h) ==
    /\ Droppable(h)
    /\ os' = OsReleased(h)
    /\ pc' = [pc EXCEPT ![h] = "drop_release"]
    /\ ret' = [ret EXCEPT ![h] = "none"]
    /\ UNCHANGED <<locked, mode, file, wcv, held, peerRet>>

\* drop up to sys::unlock (result ignored), here succeeding; an unlocked
\* handle goes straight to close.
Drop(h) ==
    /\ Droppable(h)
    /\ IF locked[h]
       THEN /\ os' = OsReleased(h)
            /\ pc' = [pc EXCEPT ![h] = "drop_release"]
       ELSE /\ os' = os
            /\ pc' = [pc EXCEPT ![h] = "drop_close"]
    /\ ret' = [ret EXCEPT ![h] = "none"]
    /\ UNCHANGED <<locked, mode, file, wcv, held, peerRet>>

\* drop of a locked handle whose sys::unlock fails: the error is discarded.
DropUnlockErr(h) ==
    /\ Droppable(h) /\ locked[h]
    /\ pc' = [pc EXCEPT ![h] = "drop_release"]
    /\ ret' = [ret EXCEPT ![h] = "none"]
    /\ UNCHANGED <<locked, mode, file, wcv, held, os, peerRet>>

\* drop that forgets release_lock.
DropRelease_NoRelease(h) ==
    /\ pc[h] = "drop_release"
    /\ pc' = [pc EXCEPT ![h] = "drop_close"]
    /\ locked' = [locked EXCEPT ![h] = FALSE]
    /\ UNCHANGED <<mode, file, ret, wcv, held, os, peerRet>>

\* release_lock, then locked = false.
DropRelease(h) ==
    /\ pc[h] = "drop_release"
    /\ ReleaseLock(h, "drop_close")
    /\ locked' = [locked EXCEPT ![h] = FALSE]
    /\ UNCHANGED <<mode, file, ret, wcv, os, peerRet>>

\* sys::close(desc): closing the description gives up a lock it holds.
DropClose(h) ==
    /\ pc[h] = "drop_close"
    /\ os' = OsReleased(h)
    /\ pc' = [pc EXCEPT ![h] = "dropped"]
    /\ UNCHANGED <<locked, mode, file, ret, wcv, held, peerRet>>

----------------------------------------------------------------------------
\* The other process, and the end of this one

\* The try_lock example run by another process: open, try_lock, report.
PeerTryLock(f) ==
    /\ IF os[f] = 0
       THEN /\ os' = [os EXCEPT ![f] = Peer]
            /\ peerRet' = [peerRet EXCEPT ![f] = "true"]
       ELSE /\ os' = os
            /\ peerRet' = [peerRet EXCEPT ![f] = "false"]
    /\ UNCHANGED <<pc, locked, mode, file, ret, wcv, held>>

\* The other process unlocks, drops its handle or exits.
PeerRelease(f) ==
    /\ os[f] = Peer
    /\ os' = [os EXCEPT ![f] = 0]
    /\ peerRet' = [peerRet EXCEPT ![f] = "none"]
    /\ UNCHANGED <<pc, locked, mode, file, ret, wcv, held>>

Exited == \A h \in Handles : pc[h] = "exited"

\* This process exits: no destructor runs, the kernel closes every
\* descriptor and with it gives up the locks they hold; the memory of the
\* process (handles, table) is gone.
ProcessExit ==
    /\ ~Exited
    /\ pc' = [h \in Handles |-> "exited"]
    /\ os' = [f \in DOMAIN os |-> IF os[f] \in Handles THEN 0 ELSE os[f]]
    /\ locked' = [h \in Handles |-> FALSE]
    /\ ret' = [h \in Handles |-> "none"]
    /\ wcv' = [h \in Handles |-> 0]
    /\ held' = [f \in DOMAIN held |-> Vacant]
    /\ UNCHANGED <<mode, file, peerRet>>

----------------------------------------------------------------------------
\* Steps of handle h in which every native call does what the lock state
\* decides.
Step(h) ==
    \/ Lock(h)
    \/ LockPanic(h)
    \/ Retake(h)
    \/ NativeLockOk(h)
    \/ LockRelease(h)
    \/ TryLock(h)
    \/ TryLockPanic(h)
    \/ TryNative(h, "none")
    \/ TryRelease(h)
    \/ Unlock(h)
    \/ UnlockRelease(h)
    \/ UnlockPanic(h)
    \/ Drop(h)
    \/ DropRelease(h)
    \/ DropClose(h)

\* Steps in which a native call fails for a reason of its own, or a wait
\* ends without a notification.
Fault(h) ==
    \/ SpuriousWake(h)
    \/ NativeLockErr(h)
    \/ \E e \in Faults \ {"none"} : TryNative(h, e)
    \/ UnlockErr(h)
    \/ DropUnlockErr(h)

Env ==
    \/ \E f \in Files : PeerTryLock(f)
    \/ \E f \in Files : PeerRelease(f)
    \/ ProcessExit

\* lock, try_lock, unlock and drop as lib.rs has them: nothing is written
\* to the file.
Next ==
    \/ \E h \in Handles : Step(h) /\ UNCHANGED restvars
    \/ \E h \in Handles : Fault(h) /\ UNCHANGED restvars
    \/ Env /\ UNCHANGED restvars

Spec == Init /\ [][Next]_vars

----------------------------------------------------------------------------
\* Several threads queueing for one file: every handle is opened with
\* open_excl.
InitContend ==
    /\ Opened(NumContenders, {"PerFileDesc"})
    /\ Unstamped(NumContenders)
    /\ Quiet(NumContenders)

SpecContend == InitContend /\ [][Next]_vars

\* A step that carries on a call already under way; the thread making the
\* call is scheduled again and again until the call returns or blocks.
Progress(h) ==
    \/ Retake(h)
    \/ NativeLockOk(h)
    \/ LockRelease(h)
    \/ TryNative(h, "none")
    \/ TryRelease(h)
    \/ UnlockRelease(h)
    \/ DropRelease(h)
    \/ DropClose(h)

\* Every native call does what the lock state decides, waits end only by a
\* notification, and the scheduler is fair to every thread.
NextReliable ==
    \/ \E h \in Handles : Step(h) /\ UNCHANGED restvars
    \/ Env /\ UNCHANGED restvars

SpecFair ==
    /\ InitContend
    /\ [][NextReliable]_vars
    /\ \A h \in 1..NumContenders : WF_vars(Progress(h) /\ UNCHANGED restvars)

----------------------------------------------------------------------------
\* PID stamp: the Writer of fmt.rs over the native calls of unix.rs

\* The variables lib.rs itself works on.
corevars == <<pc, locked, mode, file, ret, wcv, held, os, peerRet>>

\* fmt.rs: the size of the Adapter's buffer.
BUF_SIZE == 16

\* sys::pid(): the id of this process.
ThisPid == 42

DigitChars == <<"0", "1", "2", "3", "4", "5", "6", "7", "8", "9">>

\* "{}" of a process id: its decimal digits, most significant first.
RECURSIVE Decimal(_)
Decimal(n) ==
    IF n < 10
    THEN <<DigitChars[n + 1]>>
    ELSE Append(Decimal(n \div 10), DigitChars[(n % 10) + 1])

\* writeln!(writer, "{}", sys::pid()): the pieces handed to write_str.
PidPieces == <<Decimal(ThisPid), <<"\n">>>>

\* Adapter::write_str(data) when data fits the room left in the buffer: the
\* bytes are copied behind the cursor and nothing is flushed.
WriteStr(buf, data) == buf \o data

\* core::fmt::Write::write_fmt on the Adapter: write_str piece by piece.
RECURSIVE WriteFmt(_, _)
WriteFmt(buf, pieces) ==
    IF pieces = <<>>
    THEN buf
    ELSE WriteFmt(WriteStr(buf, Head(pieces)), Tail(pieces))

\* Adapter::finish: the value Writer::write_fmt returns is the result field.
Finish(h) == wres[h]

\* A byte of the hole a write past the end of the file leaves.
Hole == "NUL"

\* The file after libc::write put bytes at offset off.
Overlay(c, off, bytes) ==
    LET n == IF Len(c) > off + Len(bytes) THEN Len(c) ELSE off + Len(bytes)
    IN  [i \in 1..n |->
            IF i > off /\ i <= off + Len(bytes) THEN bytes[i - off]
            ELSE IF i <= Len(c) THEN c[i] ELSE Hole]

\* sys::truncate that seeks to the start and leaves the length alone.
Truncated_SeekOnly(h) == content

\* The files after sys::truncate(desc) on h: lseek to 0, ftruncate to 0.
Truncated(h) == [content EXCEPT ![file[h]] = <<>>]

\* constants.rs: the truncation default, which nothing here changes.
LockfileTruncateState == TRUE

\* lock_with_pid: lock() first.
LockWithPid(h) ==
    /\ frame[h] = "none"
    /\ \/ Lock(h) /\ frame' = [frame EXCEPT ![h] = "lock_with_pid"]
       \/ LockPanic(h) /\ frame' = frame
    /\ UNCHANGED <<trunc, wbuf, wres, wout, offset, stamp, content>>

\* try_lock_with_pid: try_lock() first.
TryLockWithPid(h) ==
    /\ frame[h] = "none"
    /\ \/ TryLock(h) /\ frame' = [frame EXCEPT ![h] = "try_lock_with_pid"]
       \/ TryLockPanic(h) /\ frame' = frame
    /\ UNCHANGED <<trunc, wbuf, wres, wout, offset, stamp, content>>

\* lock() or try_lock() has returned into the stamping call.  Without the
\* lock its value is returned as it is.  With the lock the PID is written:
\* Writer::write_fmt makes an Adapter, formats into its buffer (the text
\* fits, so write_str flushes nothing), takes the result by finish, and the
\* drop of the Adapter starts the flush of the buffer through sys::write.
StampPid(h) ==
    /\ frame[h] \in {"lock_with_pid", "try_lock_with_pid"}
    /\ pc[h] = "idle"
    /\ IF ret[h] \in {"ok", "true"}
       THEN /\ Len(WriteFmt(<<>>, PidPieces)) <= BUF_SIZE
            /\ wbuf' = [wbuf EXCEPT ![h] = WriteFmt(<<>>, PidPieces)]
            /\ wres' = [wres EXCEPT ![h] = "ok"]
            /\ wout' = [wout EXCEPT ![h] = WriteFmt(<<>>, PidPieces)]
            /\ frame' = [frame EXCEPT ![h] = "flush"]
            /\ stamp' = [stamp EXCEPT ![h] = "writing"]
       ELSE /\ frame' = [frame EXCEPT ![h] = "none"]
            /\ UNCHANGED <<wbuf, wres, wout, stamp>>
    /\ UNCHANGED <<corevars, trunc, offset, content>>

\* sys::write, one pass of its loop: libc::write takes the first k of the
\* bytes left.  With the last of them sys::write returns Ok, flush resets
\* the buffer, and fsync is next.
SysWrite(h, k) ==
    /\ frame[h] = "flush"
    /\ k \in 1..Len(wout[h])
    /\ content' = [content EXCEPT
                     ![file[h]] = Overlay(@, offset[h], SubSeq(wout[h], 1, k))]
    /\ offset' = [offset EXCEPT ![h] = @ + k]
    /\ wout' = [wout EXCEPT ![h] = SubSeq(@, k + 1, Len(@))]
    /\ IF k = Len(wout[h])
       THEN /\ wbuf' = [wbuf EXCEPT ![h] = <<>>]
            /\ frame' = [frame EXCEPT ![h] = "fsync"]
            /\ stamp' = [stamp EXCEPT ![h] = "written"]
       ELSE UNCHANGED <<wbuf, frame, stamp>>
    /\ UNCHANGED <<corevars, trunc, wres>>

\* libc::write fails with an errno other than EAGAIN: sys::write and flush
\* return Err, which the drop of the Adapter discards; fsync is next.
SysWriteErr(h) ==
    /\ frame[h] = "flush"
    /\ wout' = [wout EXCEPT ![h] = <<>>]
    /\ frame' = [frame EXCEPT ![h] = "fsync"]
    /\ stamp' = [stamp EXCEPT ![h] = "failed"]
    /\ UNCHANGED <<corevars, trunc, wbuf, wres, offset, content>>

\* libc::write fails with EAGAIN: sys::write goes on to slice the bytes
\* from index (-1 as usize), which panics; the panic leaves the stamping
\* call with the handle still locked.
SysWriteAgain(h) ==
    /\ frame[h] = "flush"
    /\ pc' = [pc EXCEPT ![h] = "panicked"]
    /\ ret' = [ret EXCEPT ![h] = "panic"]
    /\ frame' = [frame EXCEPT ![h] = "none"]
    /\ wbuf' = [wbuf EXCEPT ![h] = <<>>]
    /\ wout' = [wout EXCEPT ![h] = <<>>]
    /\ stamp' = [stamp EXCEPT ![h] = "failed"]
    /\ UNCHANGED <<locked, mode, file, wcv, held, os, peerRet,
                   trunc, wres, offset, content>>

\* sys::fsync (result discarded) ends the drop of the Adapter, and
\* Writer::write_fmt returns what finish took.  Ok ends the stamping call
\* with the value of lock() / try_lock(); Err makes it release the lock.
StampReturn(h) ==
    /\ frame[h] = "fsync"
    /\ wbuf' = [wbuf EXCEPT ![h] = <<>>]
    /\ frame' = [frame EXCEPT
                   ![h] = IF Finish(h) = "ok" THEN "none" ELSE "rollback"]
    /\ UNCHANGED <<corevars, trunc, wres, wout, offset, stamp, content>>

\* The lock has been released after a failed write: the error is returned.
RollbackReturn(h) ==
    /\ frame[h] = "rollback"
    /\ pc[h] = "idle" /\ ~locked[h]
    /\ ret' = [ret EXCEPT ![h] = "err"]
    /\ frame' = [frame EXCEPT ![h] = "none"]
    /\ UNCHANGED <<pc, locked, mode, file, wcv, held, os, peerRet,
                   trunc, wbuf, wres, wout, offset, stamp, content>>

\* unlock, called by the user or to release the lock after a failed write:
\* the native unlock first, the truncate after it.
PidUnlock(h) ==
    /\ frame[h] \in {"none", "rollback"}
    /\ \/ Unlock(h) /\ trunc' = [trunc EXCEPT ![h] = LockfileTruncateState]
       \/ UnlockPanic(h) /\ trunc' = trunc
    /\ UNCHANGED <<frame, wbuf, wres, wout, offset, stamp, content>>

\* unlock: sys::truncate(desc) returns Ok, the stamp is gone.
UnlockTruncate(h) ==
    /\ pc[h] = "unlock_release" /\ trunc[h]
    /\ offset' = [offset EXCEPT ![h] = 0]
    /\ content' = Truncated(h)
    /\ trunc' = [trunc EXCEPT ![h] = FALSE]
    /\ stamp' = [stamp EXCEPT ![h] = IF @ = "none" THEN "none" ELSE "erased"]
    /\ UNCHANGED <<corevars, frame, wbuf, wres, wout>>

\* unlock: ftruncate fails after the seek (the seek to the start of an open
\* regular file does not fail), and unlock returns the error at once.
UnlockTruncateErr(h) ==
    /\ pc[h] = "unlock_release" /\ trunc[h]
    /\ offset' = [offset EXCEPT ![h] = 0]
    /\ trunc' = [trunc EXCEPT ![h] = FALSE]
    /\ pc' = [pc EXCEPT ![h] = "idle"]
    /\ ret' = [ret EXCEPT ![h] = "err"]
    /\ UNCHANGED <<locked, mode, file, wcv, held, os, peerRet,
                   frame, wbuf, wres, wout, stamp, content>>

\* unlock: release_lock comes after the truncate.
PidUnlockRelease(h) ==
    /\ ~trunc[h]
    /\ UnlockRelease(h)
    /\ UNCHANGED pidvars

\* The process exits: its memory is gone, the file stays as it is.
PidProcessExit ==
    /\ ProcessExit
    /\ frame' = [h \in Handles |-> "none"]
    /\ trunc' = [h \in Handles |-> FALSE]
    /\ wbuf' = [h \in Handles |-> <<>>]
    /\ wres' = [h \in Handles |-> "ok"]
    /\ wout' = [h \in Handles |-> <<>>]
    /\ offset' = [h \in Handles |-> 0]
    /\ UNCHANGED <<stamp, content>>

\* Steps of a handle that takes the lock by the stamping calls only.
PidStep(h) ==
    \/ LockWithPid(h)
    \/ TryLockWithPid(h)
    \/ StampPid(h)
    \/ \E k \in 1..BUF_SIZE : SysWrite(h, k)
    \/ StampReturn(h)
    \/ RollbackReturn(h)
    \/ PidUnlock(h)
    \/ UnlockTruncate(h)
    \/ PidUnlockRelease(h)
    \/ (Retake(h) \/ NativeLockOk(h) \/ LockRelease(h)) /\ UNCHANGED pidvars
    \/ (TryNative(h, "none") \/ TryRelease(h)) /\ UNCHANGED pidvars
    \/ frame[h] = "none" /\ Drop(h) /\ UNCHANGED pidvars
    \/ (DropRelease(h) \/ DropClose(h)) /\ UNCHANGED pidvars

\* A write or a truncate that fails for a reason of its own (flock does
\* what the lock state decides here; its failures are in Spec).
PidFault(h) ==
    \/ SysWriteErr(h)
    \/ SysWriteAgain(h)
    \/ UnlockTruncateErr(h)

\* The other process locks without a PID (the try_lock example).
PidEnv ==
    \/ (\E f \in Files : PeerTryLock(f)) /\ UNCHANGED pidvars
    \/ (\E f \in Files : PeerRelease(f)) /\ UNCHANGED pidvars
    \/ PidProcessExit

NextPid ==
    \/ \E h \in Handles : PidStep(h)
    \/ \E h \in Handles : PidFault(h)
    \/ PidEnv

InitPid ==
    /\ Opened(NumStampers, Modes)
    /\ Unstamped(NumStampers)
    /\ Quiet(NumStampers)

\* The stamping call on h returns to its caller in this step.
StampCallReturns(h) ==
    frame[h] # "none" /\ frame'[h] = "none" /\ pc'[h] = "idle"

\* The stamping calls with nobody reading the file.
SpecPid ==
    InitPid
    /\ [][NextPid /\ UNCHANGED <<seen, auxvars, mtx, want, plain, closes, stdfile>>]_vars

\* test.rs, other_process_pid: read_to_string(path) after the first
\* stamping call that returned with the lock, kept in `content` to be
\* compared with what is read after the later ones.
ReadAfterStamp ==
    seen' = [h \in Handles |->
               IF /\ seen[h] = NotRead
                  /\ StampCallReturns(h)
                  /\ ret'[h] \in {"ok", "true"}
               THEN content'[file[h]]
               ELSE seen[h]]

\* The stamping calls with the file read after the first of them.
SpecRestamp ==
    InitPid
    /\ [][/\ NextPid
          /\ ReadAfterStamp
          /\ UNCHANGED <<auxvars, mtx, want, plain, closes, stdfile>>]_vars

----------------------------------------------------------------------------
\* Plain I/O on a lock file by the process that locks it (test.rs,
\* other_process_but_curr_reads: read_to_string(path))

\* Locks that are the process's, as fcntl gives them: closing any
\* descriptor of the file drops the lock the process has on it.
OsClosed_PerProcess(d, f) ==
    IF os[f] \in Handles \cup {d} THEN [os EXCEPT ![f] = 0] ELSE os

\* The kernel lock table after the open file description d of f is closed:
\* a flock lock goes with the description that took it (unix.rs: flock).
OsClosed(d, f) == IF os[f] = d THEN [os EXCEPT ![f] = 0] ELSE os

\* File::open(path): a new open file description, with no lock.
PlainOpen(f) ==
    /\ ~Exited
    /\ plain[f] \in {"unopened", "closed"}
    /\ plain' = [plain EXCEPT ![f] = "open"]
    /\ UNCHANGED <<corevars, pidvars, seen, auxvars, mtx, want, closes, stdfile>>

\* read_to_end: the bytes of the file are read.
PlainRead(f) ==
    /\ ~Exited
    /\ plain[f] = "open"
    /\ plain' = [plain EXCEPT ![f] = "read"]
    /\ UNCHANGED <<corevars, pidvars, seen, auxvars, mtx, want, closes, stdfile>>

\* The File is dropped: its descriptor is closed.
PlainClose(f) ==
    /\ ~Exited
    /\ plain[f] \in {"open", "read"}
    /\ plain' = [plain EXCEPT ![f] = "closed"]
    /\ os' = OsClosed(PlainDesc, f)
    /\ UNCHANGED <<pc, locked, mode, file, ret, wcv, held, peerRet>>
    /\ UNCHANGED <<pidvars, seen, auxvars, mtx, want, closes, stdfile>>

NextPlain ==
    \/ \E h \in Handles : Step(h) /\ UNCHANGED restvars
    \/ \E h \in Handles : Fault(h) /\ UNCHANGED restvars
    \/ Env /\ UNCHANGED restvars
    \/ \E f \in Files : PlainOpen(f)
    \/ \E f \in Files : PlainRead(f)
    \/ \E f \in Files : PlainClose(f)

SpecPlain == Init /\ [][NextPlain]_vars

----------------------------------------------------------------------------
\* Into<File> for &mut LockFile (unix/into_file.rs): a std::fs::File made
\* from the handle's descriptor, File::from_raw_fd(self.raw())

\* The descriptor of h is still open: a native call on a closed descriptor
\* fails with EBADF.
DescOpen(h) == closes[h] = 0

\* The native calls of h's thread that succeed; they need the descriptor.
NativeOk(h) ==
    \/ NativeLockOk(h)
    \/ TryNative(h, "none")
    \/ Unlock(h)
    \/ locked[h] /\ Drop(h)

\* The steps of h's thread that make no native call.
NoNative(h) ==
    \/ Lock(h)
    \/ LockPanic(h)
    \/ Retake(h)
    \/ LockRelease(h)
    \/ TryLock(h)
    \/ TryLockPanic(h)
    \/ TryRelease(h)
    \/ UnlockRelease(h)
    \/ UnlockPanic(h)
    \/ ~locked[h] /\ Drop(h)
    \/ DropRelease(h)

\* into(): the File takes the descriptor for its own, the LockFile keeps
\* it as well (self is a &mut, the handle stays in use).
IntoFile(h) ==
    /\ pc[h] = "idle"
    /\ stdfile[h] = "none"
    /\ stdfile' = [stdfile EXCEPT ![h] = "live"]
    /\ UNCHANGED <<corevars, pidvars, seen, auxvars, mtx, want, plain, closes>>

\* The File is dropped: it closes its descriptor, and with the open file
\* description goes the lock taken through it.
FileDrop(h) ==
    /\ stdfile[h] = "live"
    /\ ~Exited
    /\ stdfile' = [stdfile EXCEPT ![h] = "dropped"]
    /\ closes' = [closes EXCEPT ![h] = @ + 1]
    /\ os' = IF DescOpen(h) THEN OsReleased(h) ELSE os
    /\ UNCHANGED <<pc, locked, mode, file, ret, wcv, held, peerRet>>
    /\ UNCHANGED <<pidvars, seen, auxvars, mtx, want, plain>>

\* Drop for LockFile, its last step: sys::close(self.desc).
CountedClose(h) ==
    /\ DropClose(h)
    /\ closes' = [closes EXCEPT ![h] = @ + 1]
    /\ UNCHANGED <<pidvars, seen, auxvars, mtx, want, plain, stdfile>>

NextIntoFile ==
    \/ \E h \in Handles : NoNative(h) /\ UNCHANGED restvars
    \/ \E h \in Handles : DescOpen(h) /\ NativeOk(h) /\ UNCHANGED restvars
    \/ \E h \in Handles : Fault(h) /\ UNCHANGED restvars
    \/ \E h \in Handles : CountedClose(h)
    \/ \E h \in Handles : IntoFile(h)
    \/ \E h \in Handles : FileDrop(h)
    \/ Env /\ UNCHANGED restvars

SpecIntoFile == Init /\ [][NextIntoFile]_vars

----------------------------------------------------------------------------
\* The mutex of HELD_LOCKS: every access to the table taken apart into the
\* call, HELD_LOCKS.lock() and the work done under the guard

\* What the work under the guard and the steps outside unix_fileid.rs
\* leave alone.
sidevars == <<pidvars, seen, auxvars, plain, closes, stdfile>>

\* The functions of unix_fileid.rs that h's thread can call where it is; a
\* thread woken in cv.wait has to take the mutex again before wait returns.
\* FileId::NonExclusive calls none of them.
TableCalls(h) ==
    IF ~Exclusive(h) THEN {}
    ELSE IF pc[h] = "idle" /\ ~locked[h] THEN {"take_lock", "try_take_lock"}
    ELSE IF pc[h] = "woken" THEN {"wait"}
    ELSE IF pc[h] \in {"lock_release", "try_release",
                       "unlock_release", "drop_release"}
         THEN {"release_lock"}
    ELSE {}

\* h's thread calls fn and stands at HELD_LOCKS.lock().
EnterTable(h, fn) ==
    /\ want[h] = "none"
    /\ fn \in TableCalls(h)
    /\ want' = [want EXCEPT ![h] = fn]
    /\ UNCHANGED <<corevars, sidevars, mtx>>

\* HELD_LOCKS.lock() returns the guard to h's thread.
MutexLock(h) ==
    /\ want[h] # "none"
    /\ mtx = 0
    /\ mtx' = h
    /\ UNCHANGED <<corevars, sidevars, want>>

\* cv.wait that keeps the mutex while it waits.
GuardAfter_KeptInWait(h) == IF pc'[h] = "waiting" THEN h ELSE 0

\* The holder of the mutex after h's work under the guard: the guard is
\* dropped where the function returns, and cv.wait(held) releases the
\* mutex while it waits.
GuardAfter(h) == 0

\* The work of h's thread under the guard, up to the return of the function
\* or to the wait on the condvar.
UnderGuard(h) ==
    /\ mtx = h
    /\ \/ want[h] = "take_lock" /\ Lock(h)
       \/ want[h] = "wait" /\ Retake(h)
       \/ want[h] = "try_take_lock" /\ TryLock(h)
       \/ /\ want[h] = "release_lock"
          /\ \/ LockRelease(h)
             \/ TryRelease(h)
             \/ UnlockRelease(h)
             \/ DropRelease(h)
    /\ mtx' = GuardAfter(h)
    /\ want' = [want EXCEPT ![h] = "none"]
    /\ UNCHANGED sidevars

\* The steps of h's thread outside unix_fileid.rs; for FileId::NonExclusive
\* take_lock, try_take_lock and release_lock do nothing.
Outside(h) ==
    /\ want[h] = "none"
    /\ \/ /\ ~Exclusive(h)
          /\ \/ Lock(h)
             \/ TryLock(h)
             \/ LockRelease(h)
             \/ TryRelease(h)
             \/ UnlockRelease(h)
             \/ DropRelease(h)
       \/ LockPanic(h)
       \/ TryLockPanic(h)
       \/ NativeLockOk(h)
       \/ TryNative(h, "none")
       \/ Unlock(h)
       \/ UnlockPanic(h)
       \/ Drop(h)
       \/ DropClose(h)
    /\ UNCHANGED restvars

\* A native call that fails for a reason of its own, or a wait that ends
\* without a notification.
OutsideFault(h) ==
    /\ want[h] = "none"
    /\ Fault(h)
    /\ UNCHANGED restvars

\* The other process, and the exit of this one with whatever its threads
\* are doing.
MutexEnv ==
    \/ (\E f \in Files : PeerTryLock(f)) /\ UNCHANGED restvars
    \/ (\E f \in Files : PeerRelease(f)) /\ UNCHANGED restvars
    \/ /\ ProcessExit
       /\ mtx' = 0
       /\ want' = [h \in Handles |-> "none"]
       /\ UNCHANGED sidevars

\* A step of h's own thread.
ThreadStep(h) ==
    \/ \E fn \in TableCalls(h) : EnterTable(h, fn)
    \/ MutexLock(h)
    \/ UnderGuard(h)
    \/ Outside(h)

NextMutex ==
    \/ \E h \in Handles : \E fn \in TableCalls(h) : EnterTable(h, fn)
    \/ \E h \in Handles : MutexLock(h)
    \/ \E h \in Handles : UnderGuard(h)
    \/ \E h \in Handles : Outside(h)
    \/ \E h \in Handles : OutsideFault(h)
    \/ MutexEnv

SpecMutex == Init /\ [][NextMutex]_vars

----------------------------------------------------------------------------
\* LockFile::owns_lock

\* owns_lock that answers with the opposite of the flag.
OwnsLock_Negated(h) == ~locked[h]

OwnsLock(h) == locked[h]

\* A call of owns_lock(&self) between two other calls on the handle; what
\* it returned is kept in ret.
OwnsLockCall(h) ==
    /\ pc[h] = "idle"
    /\ ret' = [ret EXCEPT ![h] = IF OwnsLock(h) THEN "owns" ELSE "owns not"]
    /\ UNCHANGED <<pc, locked, mode, file, wcv, held, os, peerRet, restvars>>

NextQuery ==
    \/ \E h \in Handles : Step(h) /\ UNCHANGED restvars
    \/ \E h \in Handles : Fault(h) /\ UNCHANGED restvars
    \/ \E h \in Handles : OwnsLockCall(h)
    \/ Env /\ UNCHANGED restvars

SpecQuery == Init /\ [][NextQuery]_vars

----------------------------------------------------------------------------
\* Writer::write_fmt (fmt.rs) on a text of any length, over write (unix.rs)

\* The longest text given to write_fmt.
MaxText == 33

\* A text of n bytes; a byte is told apart by its place in the text.
TextOf(n) == [i \in 1..n |-> i]

\* The ways a text of n bytes reaches write_str in three pieces, empty
\* pieces among them.
Pieces(n) ==
    UNION {{<<SubSeq(TextOf(n), 1, i), SubSeq(TextOf(n), i + 1, j),
              SubSeq(TextOf(n), j + 1, n)>> : j \in i..n} : i \in 0..n}

\* The number of bytes libc::write takes when it takes less than all.
ShortWrite == 7

RECURSIVE Concat(_)
Concat(ps) == IF ps = <<>> THEN <<>> ELSE Head(ps) \o Concat(Tail(ps))

\* What no step of the Writer touches.
offwriter ==
    <<pc, locked, mode, file, wcv, held, os, peerRet, trunc, seen, dlftvars,
      opens, mtx, want, plain, closes, stdfile>>

\* write_str that copies all it was given, whatever room the buffer has.
Size_AllAtOnce(buf, data) == Len(data)

\* write_str: (BUF_SIZE - self.cursor).min(bytes.len())
Size(buf, data) ==
    IF BUF_SIZE - Len(buf) < Len(data) THEN BUF_SIZE - Len(buf) ELSE Len(data)

\* A thread is inside sys::write for the Adapter on h's descriptor.
InWrite(h) == frame[h] \in {"str_flush", "drop_flush", "unwind_flush"}

\* Writer(desc).write_fmt(arguments): Adapter::new, and core::fmt::write
\* is about to hand the pieces to write_str.  One text is written through
\* a descriptor.
WriterWriteFmt(h) ==
    /\ frame[h] = "none" /\ pc[h] = "idle" /\ ret[h] = "none"
    /\ \E n \in 0..MaxText : \E ps \in Pieces(n) :
           /\ arguments' = [arguments EXCEPT ![h] = ps]
           /\ text' = [text EXCEPT ![h] = Concat(ps)]
    /\ wbuf' = [wbuf EXCEPT ![h] = <<>>]
    /\ wres' = [wres EXCEPT ![h] = "ok"]
    /\ stamp' = [stamp EXCEPT ![h] = "writing"]
    /\ frame' = [frame EXCEPT ![h] = "fmt"]
    /\ UNCHANGED <<ret, wout, offset, content, wstr, sent, offwriter>>

\* core::fmt::write: the next piece goes to write_str; after the last one
\* write_fmt of the Adapter returns and finish is called.
FmtWrite(h) ==
    /\ frame[h] = "fmt"
    /\ IF arguments[h] # <<>>
       THEN /\ wstr' = [wstr EXCEPT ![h] = Head(arguments[h])]
            /\ arguments' = [arguments EXCEPT ![h] = Tail(@)]
            /\ frame' = [frame EXCEPT ![h] = "write_str"]
       ELSE /\ frame' = [frame EXCEPT ![h] = "finish"]
            /\ UNCHANGED <<wstr, arguments>>
    /\ UNCHANGED <<ret, wbuf, wres, wout, offset, stamp, content, text, sent,
                   offwriter>>

\* write_str, one turn of its loop: copy what fits behind the cursor and,
\* with bytes left over, call flush; or leave the loop and return.  Err
\* makes core::fmt::write stop, and finish is called.
AdapterWriteStr(h) ==
    /\ frame[h] = "write_str"
    /\ IF Len(wstr[h]) > 0 /\ wres[h] = "ok"
       THEN LET size == Size(wbuf[h], wstr[h])
                buffer == wbuf[h] \o SubSeq(wstr[h], 1, size)
                left == SubSeq(wstr[h], size + 1, Len(wstr[h]))
            IN  /\ wbuf' = [wbuf EXCEPT ![h] = buffer]
                /\ wstr' = [wstr EXCEPT ![h] = left]
                /\ IF Len(left) > 0
                   THEN /\ wout' = [wout EXCEPT ![h] = buffer]
                        /\ sent' = [sent EXCEPT ![h] = @ \o buffer]
                        /\ frame' = [frame EXCEPT ![h] = "str_flush"]
                   ELSE UNCHANGED <<wout, sent, frame>>
       ELSE /\ frame' = [frame EXCEPT
                           ![h] = IF wres[h] = "ok" THEN "fmt" ELSE "finish"]
            /\ UNCHANGED <<wbuf, wstr, wout, sent>>
    /\ UNCHANGED <<ret, wres, offset, stamp, content, arguments, text,
                   offwriter>>

\* finish takes the result field, and the Adapter it was given is dropped
\* as it returns: Drop calls flush, flush calls sys::write.
AdapterFinish(h) ==
    /\ frame[h] = "finish"
    /\ wout' = [wout EXCEPT ![h] = wbuf[h]]
    /\ sent' = [sent EXCEPT ![h] = @ \o wbuf[h]]
    /\ frame' = [frame EXCEPT ![h] = "drop_flush"]
    /\ UNCHANGED <<ret, wbuf, wres, offset, stamp, content, arguments, wstr,
                   text, offwriter>>

\* sys::write, one turn of its loop: libc::write takes the first k of the
\* bytes left, all of them or fewer.
WriteSome(h, k) ==
    /\ InWrite(h)
    /\ k \in 1..Len(wout[h])
    /\ k \in {ShortWrite, Len(wout[h])}
    /\ content' = [content EXCEPT
                     ![file[h]] = Overlay(@, offset[h], SubSeq(wout[h], 1, k))]
    /\ offset' = [offset EXCEPT ![h] = @ + k]
    /\ wout' = [wout EXCEPT ![h] = SubSeq(@, k + 1, Len(@))]
    /\ UNCHANGED <<ret, frame, wbuf, wres, stamp, arguments, wstr, text, sent,
                   offwriter>>

\* sys::write has no bytes left and returns Ok; flush resets the buffer.
\* In write_str its value becomes the result field; in Drop fsync is next.
WriteDone(h) ==
    /\ InWrite(h)
    /\ wout[h] = <<>>
    /\ wbuf' = [wbuf EXCEPT ![h] = <<>>]
    /\ wres' = [wres EXCEPT ![h] = IF frame[h] = "str_flush" THEN "ok" ELSE @]
    /\ frame' = [frame EXCEPT
                   ![h] = CASE @ = "str_flush" -> "write_str"
                            [] @ = "drop_flush" -> "fsync"
                            [] @ = "unwind_flush" -> "unwind_fsync"]
    /\ stamp' = [stamp EXCEPT
                   ![h] = IF frame[h] = "drop_flush" /\ @ = "writing"
                          THEN "written" ELSE @]
    /\ UNCHANGED <<ret, wout, offset, content, arguments, wstr, text, sent,
                   offwriter>>

\* libc::write fails with an errno other than EAGAIN: sys::write returns
\* the error and flush passes it on with the buffer as it was.  write_str
\* puts it into the result field; Drop discards it.
WriteErr(h) ==
    /\ InWrite(h)
    /\ wout[h] # <<>>
    /\ wout' = [wout EXCEPT ![h] = <<>>]
    /\ wres' = [wres EXCEPT ![h] = IF frame[h] = "str_flush" THEN "err" ELSE @]
    /\ frame' = [frame EXCEPT
                   ![h] = CASE @ = "str_flush" -> "write_str"
                            [] @ = "drop_flush" -> "fsync"
                            [] @ = "unwind_flush" -> "unwind_fsync"]
    /\ stamp' = [stamp EXCEPT ![h] = "failed"]
    /\ UNCHANGED <<ret, wbuf, offset, content, arguments, wstr, text, sent,
                   offwriter>>

\* libc::write fails with EAGAIN: written is -1, and the slice of the bytes
\* from index (-1 as usize) panics.  A panic under write_str unwinds
\* through write_fmt, which drops the Adapter; a panic under Drop leaves
\* write_fmt at once; a panic while unwinding aborts the process.
WriteAgain(h) ==
    /\ InWrite(h)
    /\ wout[h] # <<>>
    /\ wout' = [wout EXCEPT ![h] = <<>>]
    /\ frame' = [frame EXCEPT
                   ![h] = CASE @ = "str_flush" -> "unwind"
                            [] @ = "drop_flush" -> "none"
                            [] @ = "unwind_flush" -> "none"]
    /\ ret' = [ret EXCEPT
                 ![h] = IF frame[h] = "unwind_flush" THEN "abort" ELSE
                        IF frame[h] = "drop_flush" THEN "panic" ELSE @]
    /\ stamp' = [stamp EXCEPT ![h] = "EAGAIN"]
    /\ UNCHANGED <<wbuf, wres, offset, content, arguments, wstr, text, sent,
                   offwriter>>

\* The Adapter is dropped by the unwinding: flush once more, with the
\* buffer the failed flush left.
UnwindDrop(h) ==
    /\ frame[h] = "unwind"
    /\ wout' = [wout EXCEPT ![h] = wbuf[h]]
    /\ sent' = [sent EXCEPT ![h] = @ \o wbuf[h]]
    /\ frame' = [frame EXCEPT ![h] = "unwind_flush"]
    /\ UNCHANGED <<ret, wbuf, wres, offset, stamp, content, arguments, wstr,
                   text, offwriter>>

\* Drop: sys::fsync, its result discarded.  Writer::write_fmt returns what
\* finish took, or the panic goes on to the caller.
AdapterFsync(h) ==
    /\ frame[h] \in {"fsync", "unwind_fsync"}
    /\ ret' = [ret EXCEPT
                 ![h] = IF frame[h] = "fsync" THEN Finish(h) ELSE "panic"]
    /\ frame' = [frame EXCEPT ![h] = "none"]
    /\ UNCHANGED <<wbuf, wres, wout, offset, stamp, content, arguments, wstr,
                   text, sent, offwriter>>

NextWriter ==
    \/ \E h \in Handles : WriterWriteFmt(h)
    \/ \E h \in Handles : FmtWrite(h)
    \/ \E h \in Handles : AdapterWriteStr(h)
    \/ \E h \in Handles : AdapterFinish(h)
    \/ \E h \in Handles : \E k \in 1..BUF_SIZE : WriteSome(h, k)
    \/ \E h \in Handles : WriteDone(h)
    \/ \E h \in Handles : WriteErr(h)
    \/ \E h \in Handles : WriteAgain(h)
    \/ \E h \in Handles : UnwindDrop(h)
    \/ \E h \in Handles : AdapterFsync(h)

\* One descriptor, opened by LockFile::open on a file just created.
InitWriter ==
    /\ Opened(1, {"OsDependent"})
    /\ Unstamped(1)
    /\ Quiet(1)

SpecWriter == InitWriter /\ [][NextWriter]_vars

----------------------------------------------------------------------------
\* LockFile::open and open_excl (lib.rs, open_internal)

\* What open_internal does not touch, the count of descriptors apart.
offopen ==
    <<pidvars, seen, fmtvars, dlftvars, mtx, want, plain, closes, stdfile>>

\* open_internal is at work on h and has not returned.
InOpen(h) == pc[h] \in {"unopened", "open_id"}

\* What the failure of get_id leaves of the count of closes: open_internal
\* returns by `?` and closes nothing.
ClosedOnIdErr(h) == closes[h]

\* path.to_os_str() fails (a nul byte inside the path): nothing is opened.
OpenPathErr(h) ==
    /\ pc[h] = "unopened"
    /\ pc' = [pc EXCEPT ![h] = "open_failed"]
    /\ ret' = [ret EXCEPT ![h] = "err"]
    /\ UNCHANGED <<locked, mode, file, wcv, held, os, peerRet, opens, offopen>>

\* sys::open gives a descriptor; get_id is next.
OpenNative(h) ==
    /\ pc[h] = "unopened"
    /\ pc' = [pc EXCEPT ![h] = "open_id"]
    /\ opens' = [opens EXCEPT ![h] = @ + 1]
    /\ UNCHANGED <<locked, mode, file, ret, wcv, held, os, peerRet, offopen>>

\* sys::open fails: the error is returned.
OpenNativeErr(h) ==
    /\ pc[h] = "unopened"
    /\ pc' = [pc EXCEPT ![h] = "open_failed"]
    /\ ret' = [ret EXCEPT ![h] = "err"]
    /\ UNCHANGED <<locked, mode, file, wcv, held, os, peerRet, opens, offopen>>

\* get_id gives the FileId (fstat for PerFileDesc, nothing to ask for
\* OsDependent), and open_internal returns the LockFile, not locked.
OpenGetId(h) ==
    /\ pc[h] = "open_id"
    /\ pc' = [pc EXCEPT ![h] = "idle"]
    /\ locked' = [locked EXCEPT ![h] = FALSE]
    /\ ret' = [ret EXCEPT ![h] = "opened"]
    /\ UNCHANGED <<mode, file, wcv, held, os, peerRet, opens, offopen>>

\* get_raw_id: fstat fails, and `?` returns the error from open_internal.
OpenGetIdErr(h) ==
    /\ pc[h] = "open_id"
    /\ Exclusive(h)
    /\ pc' = [pc EXCEPT ![h] = "open_failed"]
    /\ ret' = [ret EXCEPT ![h] = "err"]
    /\ closes' = [closes EXCEPT ![h] = ClosedOnIdErr(h)]
    /\ UNCHANGED <<locked, mode, file, wcv, held, os, peerRet, opens>>
    /\ UNCHANGED <<pidvars, seen, fmtvars, dlftvars, mtx, want, plain, stdfile>>

\* The calls to open still to be made: their paths and Exclusivity.
InitOpen ==
    /\ pc = [h \in 1..NumHandles |-> "unopened"]
    /\ locked = [h \in 1..NumHandles |-> FALSE]
    /\ mode \in [1..NumHandles -> Modes]
    /\ \A h \in 1..NumHandles : \A g \in 1..NumHandles :
           h < g => ModeRank(mode[h]) <= ModeRank(mode[g])
    /\ file \in [1..NumHandles -> Files]
    /\ ret = [h \in 1..NumHandles |-> "none"]
    /\ wcv = [h \in 1..NumHandles |-> 0]
    /\ held = [f \in Files |-> Vacant]
    /\ os = [f \in Files |-> 0]
    /\ peerRet = [f \in Files |-> "none"]
    /\ Unstamped(NumHandles)
    /\ mtx = 0
    /\ want = [h \in 1..NumHandles |-> "none"]
    /\ plain = [f \in Files |-> "unopened"]
    /\ closes = [h \in 1..NumHandles |-> 0]
    /\ stdfile = [h \in 1..NumHandles |-> "none"]
    /\ arguments = [h \in 1..NumHandles |-> <<>>]
    /\ wstr = [h \in 1..NumHandles |-> <<>>]
    /\ text = [h \in 1..NumHandles |-> <<>>]
    /\ sent = [h \in 1..NumHandles |-> <<>>]
    /\ dlft = [h \in 1..NumHandles |-> DEFAULT_LOCKFILE_TRUNCATE]
    /\ lastset = NotSet
    /\ opens = [h \in 1..NumHandles |-> 0]

NextOpen ==
    \/ \E h \in Handles : OpenPathErr(h)
    \/ \E h \in Handles : OpenNative(h)
    \/ \E h \in Handles : OpenNativeErr(h)
    \/ \E h \in Handles : OpenGetId(h)
    \/ \E h \in Handles : OpenGetIdErr(h)
    \/ \E h \in Handles : (NoNative(h) \/ NativeOk(h)) /\ UNCHANGED restvars
    \/ \E h \in Handles : Fault(h) /\ UNCHANGED restvars
    \/ \E h \in Handles : CountedClose(h)
    \/ Env /\ UNCHANGED restvars

SpecOpen == InitOpen /\ [][NextOpen]_vars

----------------------------------------------------------------------------
\* Handles on two files (two identities in HELD_LOCKS)

\* Two lock files on disk, with different (st_dev, st_ino).
TwoFiles == {"a", "b"}

\* open_excl on each of the handles: the first on one file, the others on
\* the other file.
InitPair ==
    /\ pc = [h \in 1..NumContenders |-> "idle"]
    /\ locked = [h \in 1..NumContenders |-> FALSE]
    /\ mode = [h \in 1..NumContenders |-> "PerFileDesc"]
    /\ file = [h \in 1..NumContenders |-> IF h = 1 THEN "a" ELSE "b"]
    /\ ret = [h \in 1..NumContenders |-> "none"]
    /\ wcv = [h \in 1..NumContenders |-> 0]
    /\ held = [f \in TwoFiles |-> Vacant]
    /\ os = [f \in TwoFiles |-> 0]
    /\ peerRet = [f \in TwoFiles |-> "none"]
    /\ frame = [h \in 1..NumContenders |-> "none"]
    /\ trunc = [h \in 1..NumContenders |-> FALSE]
    /\ wbuf = [h \in 1..NumContenders |-> <<>>]
    /\ wres = [h \in 1..NumContenders |-> "ok"]
    /\ wout = [h \in 1..NumContenders |-> <<>>]
    /\ offset = [h \in 1..NumContenders |-> 0]
    /\ stamp = [h \in 1..NumContenders |-> "none"]
    /\ content = [f \in TwoFiles |-> <<>>]
    /\ seen = [h \in 1..NumContenders |-> NotRead]
    /\ mtx = 0
    /\ want = [h \in 1..NumContenders |-> "none"]
    /\ plain = [f \in TwoFiles |-> "unopened"]
    /\ closes = [h \in 1..NumContenders |-> 0]
    /\ stdfile = [h \in 1..NumContenders |-> "none"]
    /\ arguments = [h \in 1..NumContenders |-> <<>>]
    /\ wstr = [h \in 1..NumContenders |-> <<>>]
    /\ text = [h \in 1..NumContenders |-> <<>>]
    /\ sent = [h \in 1..NumContenders |-> <<>>]
    /\ dlft = [h \in 1..NumContenders |-> DEFAULT_LOCKFILE_TRUNCATE]
    /\ lastset = NotSet
    /\ opens = [h \in 1..NumContenders |-> 1]

NextPair ==
    \/ \E h \in Handles : Step(h) /\ UNCHANGED restvars
    \/ \E h \in Handles : Fault(h) /\ UNCHANGED restvars
    \/ \E f \in DOMAIN os : PeerTryLock(f) /\ UNCHANGED restvars
    \/ \E f \in DOMAIN os : PeerRelease(f) /\ UNCHANGED restvars
    \/ ProcessExit /\ UNCHANGED restvars

SpecPair == InitPair /\ [][NextPair]_vars

----------------------------------------------------------------------------
\* The truncation default (constants.rs, built with the std feature, as
\* unix_fileid.rs needs it)

\* What a bool reads as where it is kept with the values of the calls.
Shown(b) == IF b THEN "true" ELSE "false"

\* default_lockfile_truncate_state() called on the thread of h:
\* DEFAULT_LOCKFILE_TRUNCATE.with(|b| *b.borrow()), the thread's own cell.
DefaultLockfileTruncateState(h) == dlft[h]

\* lockfile_truncate(v) called on the thread of h:
\* DEFAULT_LOCKFILE_TRUNCATE.with(|b| *b.borrow_mut() = v).
LockfileTruncate(h, v) ==
    /\ pc[h] = "idle"
    /\ dlft' = [dlft EXCEPT ![h] = v]
    /\ lastset' = Shown(v)
    /\ UNCHANGED <<corevars, pidvars, seen, fmtvars, opens, mtx, want, plain,
                   closes, stdfile>>

\* The thread of h asks for the default; the value is kept in ret.
QueryTruncate(h) ==
    /\ pc[h] = "idle"
    /\ ret' = [ret EXCEPT ![h] = Shown(DefaultLockfileTruncateState(h))]
    /\ UNCHANGED <<pc, locked, mode, file, wcv, held, os, peerRet, restvars>>

NextTruncate ==
    \/ \E h \in Handles : \E v \in BOOLEAN : LockfileTruncate(h, v)
    \/ \E h \in Handles : QueryTruncate(h)

\* The threads of the handles, none of which has called lockfile_truncate.
SpecTruncate == Init /\ [][NextTruncate]_vars

\* Handle h is past a successful take_lock / try_take_lock and has not yet
\* called release_lock: it is the one owner of its file's identity.
HasEntry(h) ==
    /\ Exclusive(h)
    /\ \/ pc[h] \in {"lock_native", "lock_release", "try_native",
                    "try_release", "unlock_release", "drop_release"}
       \/ locked[h] /\ pc[h] \in {"idle", "panicked"}

\* Two distinct open_excl handles on one file.
Siblings(a, b) ==
    /\ a # b
    /\ Exclusive(a) /\ Exclusive(b)
    /\ file[a] = file[b]

----------------------------------------------------------------------------
\* C1: among the open_excl handles of one file at most one owns the lock,
\* and at most one is between a successful take/try_take and its release.
C1_MutualExclusion ==
    \A a \in Handles : \A b \in Handles :
        Siblings(a, b) =>
            /\ ~(OwnsLock(a) /\ OwnsLock(b))
            /\ ~(HasEntry(a) /\ HasEntry(b))

\* One handle owns the lock while its sibling is blocked in lock().
C1_Witness ==
    \E a \in Handles : \E b \in Handles :
        Siblings(a, b) /\ OwnsLock(a) /\ pc[b] = "waiting"

----------------------------------------------------------------------------
\* Handle c competes for, or holds, the lock of b's file.
Competes(c, b) ==
    /\ file[c] = file[b]
    /\ \/ pc[c] \in {"waiting", "woken", "lock_native", "lock_release",
                    "try_native", "try_release"}
       \/ locked[c] /\ pc[c] \in {"idle", "panicked"}

\* B may now be expected to get the lock: A has unlocked natively (in
\* unlock or in drop) and is about to release the entry, B is blocked in
\* lock(), and nobody else holds or wants the lock.
AReleasesWhileBWaits(a, b) ==
    /\ a \in Handles /\ b \in Handles
    /\ Siblings(a, b)
    /\ pc[a] \in {"unlock_release", "drop_release"}
    /\ pc[b] = "waiting"

\* Somebody other than b holds or wants the lock of b's file, or the
\* process is gone.
Contended(b) ==
    \/ \E c \in Handles \ {b} : Competes(c, b)
    \/ os[file[b]] = Peer
    \/ Exited

\* C2: with A holding the lock and B blocked in lock(), once A unlocks or
\* is dropped B's lock() returns with B owning the lock, unless somebody
\* else contends for the lock in the meantime.
C2_BlockedLockReturns ==
    \A a \in 1..NumContenders : \A b \in 1..NumContenders :
        AReleasesWhileBWaits(a, b) ~>
            ((OwnsLock(b) /\ pc[b] = "idle") \/ Contended(b))

\* C3: no thread stays blocked in take_lock(id) while id is absent from
\* the table and no woken thread is about to take it.
C3_NoLostWakeup ==
    \A h \in Handles :
        ~ /\ pc[h] = "waiting"
          /\ IsVacant(file[h])
          /\ ~\E g \in Handles : file[g] = file[h] /\ pc[g] = "woken"

----------------------------------------------------------------------------
\* C4: while a sibling A owns the lock, B.try_lock() returns Ok(false) and
\* leaves B not owning the lock.
C4_TryLockWhileHeld ==
    [][\A a \in Handles : \A b \in Handles :
          (Siblings(a, b) /\ OwnsLock(a) /\ TryLock(b)) =>
              /\ pc'[b] = "idle"
              /\ ret'[b] = "false"
              /\ ~OwnsLock(b)']_vars

\* B's try_lock has returned false while A owns the lock.
C4_Witness ==
    \E a \in Handles : \E b \in Handles :
        /\ Siblings(a, b)
        /\ OwnsLock(a) /\ pc[a] = "idle" /\ os[file[a]] = a
        /\ pc[b] = "idle" /\ ret[b] = "false" /\ ~OwnsLock(b)

----------------------------------------------------------------------------
\* The kernel lock of h's file is held by the other process.
PeerHolds(h) == os[file[h]] = Peer

\* C5: a try_lock() in one process returns false while the other process
\* holds the lock, and true once the other process has given it up (by
\* unlock, drop or exit) and nobody else has taken it; flock reporting
\* nothing but the state of the lock.
C5_TryLockAcrossProcesses ==
    [][/\ \A h \in Handles :
            (TryNative(h, "none") /\ PeerHolds(h)) =>
                (ret'[h] = "false" /\ ~OwnsLock(h)')
       /\ \A h \in Handles :
            (TryNative(h, "none") /\ os[file[h]] = 0) =>
                (ret'[h] = "true" /\ OwnsLock(h)')
       /\ \A f \in Files :
            (PeerTryLock(f) /\ \E h \in Handles :
                 file[h] = f /\ OwnsLock(h) /\ pc[h] = "idle") =>
                peerRet'[f] = "false"
       /\ \A h \in Handles :
            ((Unlock(h) \/ DropClose(h) \/ ProcessExit) /\ os[file[h]] = h) =>
                os'[file[h]] = 0
       /\ \A f \in Files : PeerRelease(f) => os'[f] = 0
       /\ \A f \in Files :
            (PeerTryLock(f) /\ os[f] = 0) => peerRet'[f] = "true"
      ]_vars

\* The other process was refused while a handle of this process owns the
\* lock.
C5_Witness ==
    \E h \in Handles :
        OwnsLock(h) /\ pc[h] = "idle" /\ peerRet[file[h]] = "false"

----------------------------------------------------------------------------
----------------------------------------------------------------------------
----------------------------------------------------------------------------
\* C8: an identity is present in the table only if some handle of the
\* process owns it (has locked set, or is between its take and release).
C8_EntryImpliesOwner ==
    \A f \in Files :
        ~IsVacant(f) => \E h \in Handles : file[h] = f /\ HasEntry(h)

\* C9: once a handle's destructor has run, the kernel lock is not held
\* through it and no table entry it inserted remains.
C9_NoLeakAfterDrop ==
    \A h \in Handles :
        pc[h] = "dropped" =>
            /\ os[file[h]] # h
            /\ held[file[h]].by # h

----------------------------------------------------------------------------
\* C10: owns_lock() is false after open, turns true only by a lock() or
\* try_lock() that succeeds and is true when that call returns, and is
\* false when a successful unlock() returns.
C10_OwnsLockFollowsCalls ==
    /\ \A h \in Handles : ~OwnsLock(h)
    /\ [][\A h \in Handles :
             /\ (~OwnsLock(h) /\ OwnsLock(h)') =>
                    \/ NativeLockOk(h)
                    \/ \E e \in Faults : TryNative(h, e) /\ ret'[h] = "true"
             /\ NativeLockOk(h) => (OwnsLock(h)' /\ ret'[h] = "ok")
             /\ (\E e \in Faults : TryNative(h, e) /\ ret'[h] = "true") =>
                    OwnsLock(h)'
             /\ UnlockRelease(h) => (~OwnsLock(h)' /\ ret'[h] = "ok")
         ]_vars

\* A handle whose unlock() has returned Ok after a lock.
C10_Witness ==
    \E h \in Handles :
        pc[h] = "idle" /\ ret[h] = "ok" /\ ~OwnsLock(h)
----------------------------------------------------------------------------
\* C11: lock() or try_lock() on a handle that owns the lock panics, and the
\* offending call changes neither the table, the kernel lock, the flag nor
\* any waiting thread.
C11_RelockPanics ==
    [][\A h \in Handles :
          (/\ pc[h] = "idle" /\ OwnsLock(h)
           /\ Lock(h) \/ LockPanic(h) \/ TryLock(h) \/ TryLockPanic(h)) =>
              /\ pc'[h] = "panicked" /\ ret'[h] = "panic"
              /\ held' = held /\ os' = os
              /\ locked' = locked /\ wcv' = wcv
              /\ \A g \in Handles \ {h} : pc'[g] = pc[g]]_vars

\* An exclusive handle has panicked on a second lock and still owns both
\* layers.
C11_Witness ==
    \E h \in Handles :
        /\ pc[h] = "panicked" /\ ret[h] = "panic"
        /\ OwnsLock(h) /\ Exclusive(h)
        /\ held[file[h]].by = h /\ os[file[h]] = h

----------------------------------------------------------------------------
\* C12: unlock() on a handle that does not own the lock panics without a
\* native unlock and without a release, so that the table, the kernel lock
\* and every other handle are as before.
C12_UnlockUnownedPanics ==
    [][\A h \in Handles :
          (/\ pc[h] = "idle" /\ ~OwnsLock(h)
           /\ Unlock(h) \/ UnlockErr(h) \/ UnlockPanic(h)) =>
              /\ pc'[h] = "panicked" /\ ret'[h] = "panic"
              /\ held' = held /\ os' = os
              /\ locked' = locked /\ wcv' = wcv
              /\ \A g \in Handles \ {h} : pc'[g] = pc[g]]_vars

\* A handle has panicked in unlock() while its sibling owns the lock, and
\* the sibling still owns both layers.
C12_Witness ==
    \E a \in Handles : \E b \in Handles :
        /\ Siblings(a, b)
        /\ pc[b] = "panicked" /\ ret[b] = "panic" /\ ~OwnsLock(b)
        /\ OwnsLock(a) /\ held[file[a]].by = a /\ os[file[a]] = a

----------------------------------------------------------------------------
\* C13: when sys::lock fails in lock(), the handle releases its table entry
\* and only then returns the error; it does not own the lock, and a sibling's
\* try_take finds the identity free.
C13_LockErrorReleases ==
    [][\A h \in Handles :
          /\ NativeLockErr(h) =>
                /\ pc'[h] = "lock_release" /\ ret'[h] = "err"
                /\ ~OwnsLock(h)' /\ os' = os
          /\ LockRelease(h) =>
                /\ pc'[h] = "idle" /\ ret'[h] = "err"
                /\ ~OwnsLock(h)' /\ os' = os
                /\ Exclusive(h) => IsVacant(file[h])'
                /\ \A b \in Handles : Siblings(h, b) => TryTakeLock(b)'
      ]_vars

\* sys::lock has failed on a handle that has the entry, with a sibling
\* blocked on that entry.
C13_Witness ==
    \E h \in Handles : \E b \in Handles :
        /\ Siblings(h, b)
        /\ pc[h] = "lock_release" /\ ret[h] = "err"
        /\ held[file[h]].by = h
        /\ pc[b] = "waiting"

----------------------------------------------------------------------------
\* C14: in try_lock() past a successful try_take, the value returned is the
\* one sys::try_lock gave; on Ok(true) the handle owns the lock and keeps
\* the entry; on Ok(false) or Err the entry is released before the call
\* returns and the handle does not own the lock.
C14_TryLockUnwinds ==
    [][\A h \in Handles :
          /\ \A e \in Faults : TryNative(h, e) =>
                /\ ret'[h] = SysTryLock(h, e)
                /\ held' = held
                /\ SysTryLock(h, e) = "true" =>
                       /\ OwnsLock(h)' /\ pc'[h] = "idle"
                       /\ Exclusive(h) => held'[file[h]].by = h
                /\ SysTryLock(h, e) # "true" =>
                       (~OwnsLock(h)' /\ pc'[h] = "try_release")
          /\ TryRelease(h) =>
                /\ pc'[h] = "idle"
                /\ ret'[h] = ret[h] /\ ret[h] \in {"false", "err"}
                /\ ~OwnsLock(h)'
                /\ Exclusive(h) => IsVacant(file[h])'
      ]_vars

\* An exclusive handle got the entry and was then refused by the kernel,
\* the other process holding the lock.
C14_Witness ==
    \E h \in Handles :
        /\ Exclusive(h) /\ held[file[h]].by = h
        /\ pc[h] = "try_release" /\ ret[h] = "false"
        /\ PeerHolds(h)

----------------------------------------------------------------------------
\* C15: try_lock() on a handle whose identity is in the table returns
\* Ok(false) in that one step: no native call, and the table, the kernel
\* lock, the flag and every other thread are as before.
C15_RefusedTryLockTouchesNothing ==
    [][\A h \in Handles :
          (TryLock(h) /\ Exclusive(h) /\ ~IsVacant(file[h])) =>
              /\ pc'[h] = "idle" /\ ret'[h] = "false"
              /\ held' = held /\ os' = os
              /\ locked' = locked /\ wcv' = wcv
              /\ \A g \in Handles \ {h} : pc'[g] = pc[g]]_vars

\* A handle was refused by the table alone: its sibling has the entry but
\* has not yet asked the kernel, whose lock is free.
C15_Witness ==
    \E a \in Handles : \E b \in Handles :
        /\ Siblings(a, b)
        /\ pc[a] \in {"lock_native", "try_native"}
        /\ os[file[a]] = 0
        /\ pc[b] = "idle" /\ ret[b] = "false" /\ ~OwnsLock(b)

----------------------------------------------------------------------------
\* C16: sys::try_lock gives Ok(false) exactly when flock's
\* errno is the "would block" code, and Err for every other errno.
C16_FalseOnlyOnWouldBlock ==
    [][\A h \in Handles : \A e \in Faults :
          TryNative(h, e) =>
              /\ (ret'[h] = "false") <=> (FlockErrno(h, e) = "EWOULDBLOCK")
              /\ FlockErrno(h, e) \notin {"0", "EWOULDBLOCK"} =>
                     ret'[h] = "err"]_vars

----------------------------------------------------------------------------
\* C17: unlock() on a handle that owns the lock gives up the kernel lock
\* first and releases the table entry after it, never while the handle
\* still holds the kernel lock (a failing sys::unlock releases nothing);
\* when it returns Ok the handle does not own the lock, the kernel lock is
\* not held through it and its entry is gone.
C17_UnlockOrder ==
    [][\A h \in Handles :
          /\ Unlock(h) =>
                /\ os'[file[h]] # h /\ held' = held
                /\ ~OwnsLock(h)' /\ pc'[h] = "unlock_release"
          /\ UnlockErr(h) => (held' = held /\ os' = os)
          /\ UnlockRelease(h) =>
                /\ os[file[h]] # h
                /\ pc'[h] = "idle" /\ ret'[h] = "ok"
                /\ ~OwnsLock(h)' /\ os'[file[h]] # h
                /\ Exclusive(h) => IsVacant(file[h])'
      ]_vars

\* unlock() has returned Ok on an exclusive handle: both layers are free
\* and the sibling that was blocked on the entry has been woken.
C17_Witness ==
    \E h \in Handles : \E b \in Handles :
        /\ Siblings(h, b)
        /\ pc[h] = "idle" /\ ret[h] = "ok" /\ ~OwnsLock(h)
        /\ IsVacant(file[h]) /\ os[file[h]] = 0
        /\ pc[b] = "woken"
----------------------------------------------------------------------------
\* C18: a lock_with_pid() / try_lock_with_pid() during which a native write
\* of the PID failed returns an error with the lock released in both
\* layers, and whenever such a call returns an error the handle does not
\* own the lock.
C18_WriteFailureReleasesLock ==
    [][\A h \in Handles :
          StampCallReturns(h) =>
              /\ stamp[h] = "failed" =>
                     /\ ret'[h] = "err"
                     /\ ~OwnsLock(h)'
                     /\ os'[file[h]] # h
                     /\ held'[file[h]].by # h
              /\ ret'[h] = "err" => ~OwnsLock(h)']_vars

----------------------------------------------------------------------------
\* char::is_whitespace, for the characters a lock file can hold.
IsSpace(c) == c \in {" ", "\n"}

\* str::trim
RECURSIVE TrimStart(_)
TrimStart(t) ==
    IF t # <<>> /\ IsSpace(Head(t)) THEN TrimStart(Tail(t)) ELSE t

RECURSIVE TrimEnd(_)
TrimEnd(t) ==
    IF t # <<>> /\ IsSpace(t[Len(t)])
    THEN TrimEnd(SubSeq(t, 1, Len(t) - 1))
    ELSE t

Trim(t) == TrimEnd(TrimStart(t))

\* chars().all(|ch| ch.is_ascii_digit())
AllAsciiDigits(t) ==
    \A i \in 1..Len(t) : \E d \in 1..Len(DigitChars) : t[i] = DigitChars[d]

\* h holds the lock it took by a stamping call that has returned.
HoldsStamped(h) ==
    frame[h] = "none" /\ pc[h] = "idle" /\ OwnsLock(h)

\* C19: while a handle holds the lock it took by lock_with_pid() or by a
\* try_lock_with_pid() that returned true, the file read at any moment is,
\* up to surrounding whitespace, the non-empty decimal digits of the
\* process id: the same at every read, never a part of the stamp.
C19_StampReadable ==
    \A h \in Handles :
        HoldsStamped(h) =>
            /\ Trim(content[file[h]]) # <<>>
            /\ AllAsciiDigits(Trim(content[file[h]]))
            /\ Trim(content[file[h]]) = Decimal(ThisPid)

----------------------------------------------------------------------------
----------------------------------------------------------------------------
\* C21: when a handle that took the lock with the PID stamp before takes it
\* that way again (an unlock in between), the call returns with the file
\* holding exactly what it held when the first such call returned.
C21_RestampSameContent ==
    [][\A h \in Handles :
          (/\ StampCallReturns(h)
           /\ ret'[h] \in {"ok", "true"}
           /\ seen[h] # NotRead)
              => content'[file[h]] = seen[h]]_vars

----------------------------------------------------------------------------
\* h's thread is inside try_lock, past the check of the flag.
InTryLock(h) ==
    \/ want[h] = "try_take_lock"
    \/ pc[h] \in {"try_native", "try_release"}

\* How far h's thread is through try_lock: at the mutex for try_take_lock,
\* under the guard, at the native call, before release_lock, at the mutex
\* for it, under the guard.
TryRank(h) ==
    IF want[h] = "try_take_lock" THEN (IF mtx = h THEN 2 ELSE 1)
    ELSE IF pc[h] = "try_native" THEN 3
    ELSE IF pc[h] = "try_release"
         THEN (IF want[h] = "none" THEN 4 ELSE IF mtx = h THEN 6 ELSE 5)
    ELSE 0

\* try_lock has returned to its caller (or the process is gone).
TryLockOver(h) ==
    /\ ~InTryLock(h)
    /\ want[h] = "none"
    /\ \/ pc[h] = "idle" /\ ret[h] \in {"true", "false", "err"}
       \/ pc[h] = "exited"

\* C22: a thread inside try_lock (try_take_lock included) can always take
\* its next step, whatever the other handles hold or wait for, unless it
\* waits for the mutex of the table, and then the holder of the mutex can
\* take its step; whoever holds the mutex is not blocked; and every step of
\* the thread takes it further through try_lock, which is over after a
\* bounded number of them.
C22_TryLockNeverBlocks ==
    /\ [](\A h \in Handles :
             /\ InTryLock(h) =>
                    \/ ENABLED ThreadStep(h)
                    \/ /\ want[h] # "none"
                       /\ mtx \in Handles \ {h}
                       /\ ENABLED UnderGuard(mtx)
             /\ mtx = h => ENABLED UnderGuard(h))
    /\ [][\A h \in Handles :
             (InTryLock(h) /\ <<pc[h], want[h], mtx = h>>' # <<pc[h], want[h], mtx = h>>)
                 => \/ InTryLock(h)' /\ TryRank(h)' > TryRank(h)
                    \/ TryLockOver(h)']_vars

\* A thread inside try_lock waits for the mutex while another thread holds
\* it, and a thread is at the native call of try_lock while the other
\* process holds the kernel lock.
C22_Witness ==
    \E h \in Handles : \E g \in Handles \ {h} :
        /\ want[h] = "try_take_lock" /\ mtx = g
        /\ os[file[h]] = Peer

----------------------------------------------------------------------------
\* The handle was opened with open(): Exclusivity::OsDependent.
OsDependent(h) == mode[h] = "OsDependent"

\* What tells a step of h's own thread from every other step.
OwnState(h) == <<pc[h], locked[h], ret[h], want[h]>>

\* C23: a handle opened with open() never calls into the table (it does not
\* take the mutex, has no entry, never waits); no step of its lock,
\* try_lock, unlock or drop changes the table or wakes a thread; from idle
\* its lock and try_lock go straight to the native call, and try_lock is
\* never refused without one; and the mode of a handle never changes.
C23_OsDependentBypass ==
    /\ [](\A h \in Handles :
             OsDependent(h) =>
                 /\ want[h] = "none" /\ mtx # h
                 /\ pc[h] \notin {"waiting", "woken"}
                 /\ wcv[h] = 0
                 /\ held[file[h]].by # h
                 /\ (pc[h] = "idle" /\ ~locked[h]) =>
                        /\ ENABLED (Outside(h) /\ pc'[h] = "lock_native")
                        /\ ENABLED (Outside(h) /\ pc'[h] = "try_native")
                        /\ ~ENABLED (ThreadStep(h) /\ pc'[h] = "idle"))
    /\ [][/\ mode' = mode
          /\ \A h \in Handles :
                (OsDependent(h) /\ OwnState(h)' # OwnState(h)
                                /\ pc'[h] # "exited")
                    => /\ held' = held
                       /\ mtx' = mtx
                       /\ \A w \in Handles \ {h} : pc'[w] = pc[w]]_vars

\* A handle opened with open() owns the lock while a handle opened with
\* open_excl has the entry of the same file in the table.
C23_Witness ==
    \E h \in Handles : \E g \in Handles \ {h} :
        /\ OsDependent(h) /\ locked[h] /\ pc[h] = "idle" /\ ret[h] \in {"ok", "true"}
        /\ file[g] = file[h] /\ held[file[h]].by = g

----------------------------------------------------------------------------
\* C24: a handle that owns the lock holds the kernel lock whatever the
\* process has opened, read and closed of the file through a std::fs::File
\* meanwhile, and the other process's try_lock has not returned true; the
\* open, the read and the close change neither the kernel lock, nor a
\* handle's flag, nor the table.
C24_PlainIoKeepsLock ==
    /\ [](\A h \in Handles :
             (OwnsLock(h) /\ pc[h] = "idle") =>
                 /\ os[file[h]] = h
                 /\ peerRet[file[h]] # "true")
    /\ [][\A f \in Files :
             plain'[f] # plain[f] =>
                 /\ os' = os
                 /\ locked' = locked
                 /\ held' = held]_vars

\* The process has read the file and closed it again while a handle of it
\* owns the lock, and the other process has been refused.
C24_Witness ==
    \E h \in Handles :
        /\ OwnsLock(h) /\ pc[h] = "idle" /\ os[file[h]] = h
        /\ plain[file[h]] = "closed"
        /\ peerRet[file[h]] = "false"

----------------------------------------------------------------------------
\* h's thread makes a native lock, try_lock or unlock call in this step.
NativeIssued(h) ==
    /\ pc'[h] # "exited"
    /\ \/ pc[h] \in {"lock_native", "try_native"} /\ pc'[h] # pc[h]
       \/ pc[h] = "idle" /\ locked[h] /\ ~locked'[h]
       \/ pc[h] # "drop_release" /\ pc'[h] = "drop_release"

\* C25: the descriptor of a handle is closed by the drop of the LockFile
\* and by nothing else: it is open until the drop has run, closed once when
\* it has, never closed twice, and no native lock, try_lock or unlock is
\* made on it once it is closed; also when a File has been made of it.
C25_ClosedExactlyOnce ==
    /\ [](\A h \in Handles :
             /\ closes[h] <= 1
             /\ closes[h] >= 1 => pc[h] \in {"dropped", "exited"}
             /\ pc[h] = "dropped" => closes[h] = 1)
    /\ [][\A h \in Handles : NativeIssued(h) => DescOpen(h)]_vars

----------------------------------------------------------------------------
\* C26: a call of owns_lock() returns the handle's locked flag as it is and
\* changes nothing: not the handle, not the table, not the kernel lock.
C26_OwnsLockPure ==
    [][\A h \in Handles :
          (ret'[h] \in {"owns", "owns not"} /\ ret'[h] # ret[h]) =>
              /\ ret'[h] = "owns" <=> locked[h]
              /\ locked' = locked
              /\ pc' = pc /\ mode' = mode /\ file' = file
              /\ held' = held /\ wcv' = wcv
              /\ os' = os /\ peerRet' = peerRet]_vars

\* owns_lock() has answered true on a handle that owns the lock, and the
\* entry and the kernel lock are still the handle's.
C26_Witness ==
    \E h \in Handles :
        /\ ret[h] = "owns" /\ locked[h] /\ pc[h] = "idle"
        /\ Exclusive(h) /\ held[file[h]].by = h
        /\ os[file[h]] = h

----------------------------------------------------------------------------
\* C27: the thread that holds the mutex of the table is inside a function
\* of unix_fileid.rs with its step under the guard to take; it is not at a
\* native lock or try_lock call, not at the close, and not waiting on a
\* condvar; and no native lock, try_lock, unlock or close is made by a
\* thread holding the mutex.
C27_MutexOnlyForMapStep ==
    /\ [](\A h \in Handles :
             mtx = h =>
                 /\ want[h] # "none"
                 /\ pc[h] \notin {"lock_native", "try_native", "waiting",
                                  "drop_close", "dropped"}
                 /\ ENABLED UnderGuard(h))
    /\ [][\A h \in Handles :
             (\/ NativeIssued(h)
              \/ pc[h] = "drop_close" /\ pc'[h] = "dropped")
                 => (mtx # h /\ mtx' # h)]_vars

\* A thread waits on the condvar of an entry while the thread that is
\* about to release that entry holds the mutex.
C27_Witness ==
    \E h \in Handles : \E w \in Handles \ {h} :
        /\ mtx = h /\ want[h] = "release_lock"
        /\ pc[w] = "waiting" /\ wcv[w] = held[file[h]].cv

----------------------------------------------------------------------------
\* h's thread is at (or blocked in) the native lock or try_lock call.
AtNativeLock(h) == pc[h] \in {"lock_native", "try_native"}

\* C28: an open_excl handle is at its native lock or try_lock call only
\* with the table entry of its file inserted by itself, and two open_excl
\* handles on one file are never both at such a call.
C28_NativeOnlyWithEntry ==
    /\ \A h \in Handles :
          (Exclusive(h) /\ AtNativeLock(h)) =>
              (~IsVacant(file[h]) /\ held[file[h]].by = h)
    /\ \A a \in Handles : \A b \in Handles :
          Siblings(a, b) => ~(AtNativeLock(a) /\ AtNativeLock(b))

\* An open_excl handle is blocked in flock, the other process holding the
\* kernel lock, and its sibling's try_lock has been refused by the table.
C28_Witness ==
    \E a \in Handles : \E b \in Handles :
        /\ Siblings(a, b)
        /\ pc[a] = "lock_native" /\ os[file[a]] = Peer
        /\ held[file[a]].by = a
        /\ pc[b] = "idle" /\ ret[b] = "false" /\ ~locked[b]

----------------------------------------------------------------------------
\* The threads blocked in take_lock on the identity of file f.
BlockedOn(f) == {w \in Handles : pc[w] = "waiting" /\ file[w] = f}

\* h's thread runs release_lock in this step.
Releases(h) ==
    /\ Exclusive(h)
    /\ pc[h] \in {"lock_release", "try_release",
                   "unlock_release", "drop_release"}
    /\ pc'[h] # pc[h]
    /\ pc'[h] # "exited"

\* C29: release_lock(id) removes the entry of id when there is one and
\* then wakes exactly one of the threads blocked in take_lock(id) if there
\* is any; with no entry it changes nothing and wakes nobody.
C29_ReleaseWakesOne ==
    [][\A h \in Handles :
          Releases(h) =>
              IF ~IsVacant(file[h])
              THEN /\ IsVacant(file[h])'
                   /\ BlockedOn(file[h]) # {} =>
                          \E w \in BlockedOn(file[h]) :
                              /\ pc'[w] = "woken"
                              /\ \A v \in BlockedOn(file[h]) \ {w} :
                                     pc'[v] = "waiting"
                   /\ \A v \in Handles \ (BlockedOn(file[h]) \cup {h}) :
                          pc'[v] = pc[v]
              ELSE /\ held' = held
                   /\ \A v \in Handles \ {h} : pc'[v] = pc[v]]_vars

----------------------------------------------------------------------------
\* C30: nothing orders the threads that want one identity.  Whenever the
\* entry is vacant while threads are still in take_lock for it (blocked, or
\* woken and not yet run), a thread that calls only now gets the entry at
\* once, by lock as by try_lock; and a release can wake any one of the
\* threads waiting on the stored condvar, whichever came first.
C30_NoOrderAmongWaiters ==
    /\ \A g \in Handles : \A w \in Handles :
          (/\ Siblings(g, w)
           /\ pc[w] \in {"waiting", "woken"}
           /\ IsVacant(file[g])
           /\ pc[g] = "idle" /\ ~locked[g])
              => /\ ENABLED (Lock(g) /\ pc'[g] = "lock_native"
                                     /\ UNCHANGED restvars)
                 /\ ENABLED (TryLock(g) /\ pc'[g] = "try_native"
                                        /\ UNCHANGED restvars)
    /\ \A h \in Handles :
          (Exclusive(h) /\ pc[h] = "unlock_release") =>
              \A w \in Waiters(held[file[h]].cv) :
                  ENABLED (UnlockRelease(h) /\ pc'[w] = "woken"
                                            /\ UNCHANGED restvars)

\* A thread owns the lock under a condvar newer than the one a sibling is
\* still blocked on: it got the entry after the sibling had begun to wait.
C30_Witness ==
    \E g \in Handles : \E w \in Handles :
        /\ Siblings(g, w)
        /\ locked[g] /\ pc[g] = "idle" /\ ret[g] \in {"ok", "true"}
        /\ held[file[g]].by = g
        /\ pc[w] = "waiting"
        /\ wcv[w] # held[file[g]].cv

----------------------------------------------------------------------------
\* C31: an error that a native write returns while write_fmt is at work, at
\* whichever flush it occurs (the flush of the drop of the Adapter, the
\* only one of a text shorter than the buffer, included), is the value
\* Writer::write_fmt returns.
C31_WriteErrorReturned ==
    [][\A h \in Handles :
          (/\ frame[h] = "fsync" /\ frame'[h] = "none"
           /\ stamp[h] = "failed")
              => ret'[h] = "err"]_vars

\* No native write of the call on h has failed.
NoWriteError(h) == stamp[h] \in {"writing", "written"}

\* C32: the cursor never exceeds the size of the buffer; and as long as no
\* native write fails, the bytes handed to sys::write, in call order, are
\* the formatted text from its start (nothing lost, duplicated or
\* reordered), the kernel has taken them in that order, fsync is called
\* when all of the text has been handed over and taken, and write_fmt
\* returns Ok with the whole text, once, in the file.
C32_WriterBytesExact ==
    \A h \in Handles :
        /\ Len(wbuf[h]) <= BUF_SIZE
        /\ NoWriteError(h) =>
              /\ Len(sent[h]) <= Len(text[h])
              /\ sent[h] = SubSeq(text[h], 1, Len(sent[h]))
              /\ content[file[h]] \o wout[h] = sent[h]
              /\ frame[h] \in {"fmt", "write_str", "finish"} =>
                    sent[h] \o wbuf[h] \o wstr[h] \o Concat(arguments[h])
                        = text[h]
              /\ frame[h] = "fsync" =>
                    /\ wout[h] = <<>> /\ wbuf[h] = <<>>
                    /\ sent[h] = text[h]
              /\ frame[h] = "none" =>
                    /\ ret[h] = "ok"
                    /\ sent[h] = text[h]
                    /\ content[file[h]] = text[h]

\* write_fmt has returned Ok for a text of more than two buffers, with no
\* write error on the way.
C32_Witness ==
    \E h \in Handles :
        /\ frame[h] = "none" /\ ret[h] = "ok" /\ stamp[h] = "written"
        /\ Len(text[h]) > 2 * BUF_SIZE
        /\ content[file[h]] = text[h]

\* C33: sys::write returns Ok only when every byte has been taken, returns
\* the error of a failing libc::write other than EAGAIN, and after EAGAIN
\* goes on with the same bytes: it neither advances nor panics.
C33_WriteRetriesOnEagain ==
    /\ [](\A h \in Handles :
             frame[h] # "unwind" /\ ret[h] \notin {"panic", "abort"})
    /\ [][\A h \in Handles :
             /\ (InWrite(h) /\ frame'[h] # frame[h]) =>
                    \/ wout[h] = <<>> /\ stamp'[h] = stamp[h]
                    \/ wout[h] = <<>> /\ stamp'[h] = "written"
                    \/ wout[h] # <<>> /\ stamp'[h] = "failed"
             /\ (stamp[h] # "EAGAIN" /\ stamp'[h] = "EAGAIN") =>
                    /\ frame'[h] = frame[h]
                    /\ wout'[h] = wout[h]
                    /\ offset'[h] = offset[h]]_vars

----------------------------------------------------------------------------
\* C34: open changes neither the arbitration table nor a kernel lock; it
\* returns either a handle that is not locked, or an error with nothing
\* left behind: whatever descriptor it was given by the native open has
\* been closed when the error is returned.
C34_OpenLeavesNothing ==
    /\ [](\A h \in Handles : pc[h] = "open_failed" => opens[h] = closes[h])
    /\ [][\A h \in Handles :
             (InOpen(h) /\ pc'[h] # pc[h] /\ pc'[h] # "exited") =>
                 /\ held' = held /\ os' = os
                 /\ \/ pc'[h] = "open_id"
                    \/ /\ pc'[h] = "idle" /\ ret'[h] = "opened"
                       /\ ~locked'[h]
                       /\ opens'[h] = 1 /\ closes'[h] = 0
                    \/ pc'[h] = "open_failed" /\ ret'[h] = "err"]_vars

----------------------------------------------------------------------------
\* The handles whose threads moved in this step are handles of file f.
MovedOnlyOn(f) == \A h \in Handles : pc'[h] # pc[h] => file[h] = f

\* C35: a step of lock, try_lock, unlock or drop on a handle of one file
\* changes the table entry of no other file and neither wakes nor blocks a
\* thread of another file; no thread waits on a condvar stored for another
\* file; and lock() on a file whose entry is vacant gets the entry in its
\* one step on the table, whatever is held for the other files.
C35_IdentitiesIndependent ==
    /\ [](\A h \in Handles :
             /\ \A f \in DOMAIN held :
                    (pc[h] = "waiting" /\ f # file[h]) => held[f].cv # wcv[h]
             /\ (pc[h] = "idle" /\ ~locked[h] /\ IsVacant(file[h])) =>
                    ENABLED (/\ Lock(h) /\ pc'[h] = "lock_native"
                             /\ UNCHANGED restvars))
    /\ [][\A h \in Handles :
             (pc'[h] # pc[h] /\ pc'[h] # "exited") =>
                 \A f \in DOMAIN held :
                     f # file[h] =>
                         /\ held'[f] = held[f]
                         /\ \A w \in Handles :
                                file[w] = f =>
                                    pc'[w] = pc[w] /\ wcv'[w] = wcv[w]]_vars

\* A handle has taken the lock of one file while the other file is held
\* and has a thread waiting for it.
C35_Witness ==
    \E h \in Handles : \E g \in Handles : \E w \in Handles :
        /\ file[h] # file[g] /\ file[w] = file[g]
        /\ locked[g] /\ held[file[g]].by = g
        /\ pc[w] = "waiting"
        /\ locked[h] /\ pc[h] = "idle" /\ ret[h] \in {"ok", "true"}
        /\ held[file[h]].by = h

----------------------------------------------------------------------------
----------------------------------------------------------------------------
\* C37: every thread blocked in take_lock waits on the condvar that is
\* stored in the table for its file, or on one that a woken thread of the
\* file carries and will store again.
C37_WaitersOnStoredCondvar ==
    \A w \in Handles :
        pc[w] = "waiting" =>
            \/ held[file[w]].cv = wcv[w]
            \/ \E g \in Handles :
                   /\ file[g] = file[w]
                   /\ pc[g] = "woken" /\ wcv[g] = wcv[w]

\* Handle h is about to call release_lock.
AtRelease(h) ==
    pc[h] \in {"lock_release", "try_release", "unlock_release", "drop_release"}

\* C38: release_lock is called only by the handle whose take_lock or
\* try_take_lock inserted the entry that is in the table, and an entry is
\* removed only by a step of that handle (the exit of the process apart).
C38_ReleaseOnlyByOwner ==
    /\ [](\A h \in Handles :
             (Exclusive(h) /\ AtRelease(h)) => held[file[h]].by = h)
    /\ [][\A f \in DOMAIN held :
             (held[f] # Vacant /\ held'[f] = Vacant /\ ~Exited') =>
                 /\ AtRelease(held[f].by)
                 /\ pc'[held[f].by] # pc[held[f].by]
                 /\ file[held[f].by] = f]_vars

\* The owner is about to release in unlock while a sibling is blocked in
\* take_lock on the entry.
C38_Witness ==
    \E h \in Handles : \E w \in Handles :
        /\ Siblings(h, w)
        /\ pc[h] = "unlock_release" /\ held[file[h]].by = h
        /\ pc[w] = "waiting" /\ wcv[w] = held[file[h]].cv

====
